---------------------------- MODULE Spec2Model ----------------------------
(***************************************************************************)
(* Warren: signal strategy, backtest engine, risk policy and the           *)
(* recommendation endpoint, modelled as state machines.                    *)
(*                                                                         *)
(* Number representation.  The program computes in float64; the model      *)
(* computes in integers:                                                   *)
(*   prices and money          cents                                       *)
(*   ema / sma / macd / atr    thousandths of a cent (floor division)      *)
(*   rsi                       an exact fraction <<num, den>>              *)
(*   scores and confidence     hundredths                                  *)
(*   percentages, ratios       hundredths                                  *)
(* An optional value (None, NaN) is the empty sequence <<>>, a present     *)
(* value v is <<v>>.                                                       *)
(***************************************************************************)
EXTENDS Integers, Sequences, FiniteSets, TLC

VARIABLES
    candles,        \* the DataFrame handed to run / generate_recommendation: its rows
    columns,        \* the DataFrame's column names
    bad_values,     \* TRUE: a price column holds values pandas cannot do arithmetic on
    pc,             \* position of the operation under way
    recommendation, \* the Recommendation last returned by generate_recommendation
    \* BacktestEngine.run: its locals and its return value
    sorted_candles, \* candles after sort_values('timestamp').reset_index(drop=True)
    i,              \* bar index of the loop (0-based, as in the code)
    current_trade,  \* Optional[Trade]
    trades,         \* list of closed trades
    equity,         \* running equity, cents
    equity_curve,   \* list of {timestamp, equity}
    result,         \* Optional[BacktestResult] returned by the call under way
    run_no,         \* 1 or 2: which call of run on this engine
    first_result,   \* what the first call returned
    \* history variables (not program state)
    consults,       \* calls of generate_recommendation made by the current run
    opened,         \* trades opened by the current run
    closed_on_bar,  \* TRUE once a trade was closed in the current loop iteration
    consulted_at,   \* the bar index at which this iteration consulted the strategy
    \* risk policy and GET /recommendation/today
    risk_metrics,      \* Optional[dict]: the "metrics" of the cached risk file
    risk_validation,   \* Optional[dict]: the "validation" of the cached risk file
    cache_validation,  \* Optional[dict]: is_stale, is_inconsistent, reason
    window_days,       \* Optional[int]: window_days of the candle metadata
    policy_violations, \* Optional[List[PolicyViolation]] returned by evaluate_all
    risk_evaluation,   \* Optional[dict] returned by evaluate_risk_for_signal
    request,           \* what the repositories and validators answer for this request
    response,          \* Optional: the HTTP response of the endpoint
    \* POST /refresh
    snapshots,         \* dict name -> Optional[snapshot], as <<name, value>> in insertion order
    errors             \* dict name -> message, as the names in insertion order

inputVars == <<candles, columns, bad_values>>
runVars == <<sorted_candles, i, current_trade, trades, equity, equity_curve, result,
             run_no, first_result, consults, opened, closed_on_bar, consulted_at>>
gateVars == <<risk_metrics, risk_validation, cache_validation, window_days,
              policy_violations, risk_evaluation, request, response, snapshots, errors>>
vars == <<candles, columns, bad_values, pc, recommendation, sorted_candles, i,
          current_trade, trades, equity, equity_curve, result, run_no, first_result,
          consults, opened, closed_on_bar, consulted_at, risk_metrics, risk_validation,
          cache_validation, window_days, policy_violations, risk_evaluation, request,
          response, snapshots, errors>>

-----------------------------------------------------------------------------
(* Bounds of the model *)

\* number of bars after the 50 warm-up bars in a generated series
MaxTail == 3

-----------------------------------------------------------------------------
(* Program constants *)

min_candles_required == 50
EMA_FAST == 12
EMA_SLOW == 26
MACD_SIGNAL == 9
SMA_SHORT == 20
RSI_PERIOD == 14
ATR_PERIOD == 14
MOMENTUM_PERIOD == 10

None == <<>>
NaN == <<>>
Some(v) == <<v>>
isna(x) == x = <<>>

Abs(x) == IF x < 0 THEN -x ELSE x
Max2(a, b) == IF a >= b THEN a ELSE b
Min2(a, b) == IF a <= b THEN a ELSE b

\* round(x / d) to the nearest integer, halves away from zero (d > 0)
RoundDiv(x, d) ==
    LET a == Abs(x)
        q == (a \div d) + (IF 2 * (a % d) >= d THEN 1 ELSE 0)
    IN IF x >= 0 THEN q ELSE -q

-----------------------------------------------------------------------------
(* Input frames *)

ALL_COLUMNS == {"timestamp", "open", "high", "low", "close", "volume"}

Candle(t, o, h, l, c) ==
    [timestamp |-> t, open |-> o, high |-> h, low |-> l, close |-> c, volume |-> 1000]

Regimes == {"flat", "up", "down"}
Shapes == {"up", "down", "rally", "crash", "spike"}

\* close of warm-up bar t (1-based) under a regime, in cents
WarmClose(regime, t) ==
    CASE regime = "flat" -> 10000
      [] regime = "up"   -> 10000 + 10 * t
      [] regime = "down" -> 12000 - 10 * t

WarmUp(regime) ==
    [t \in 1..min_candles_required |->
        LET c == WarmClose(regime, t)
            o == IF t = 1 THEN c ELSE WarmClose(regime, t - 1)
        IN Candle(t, o, Max2(o, c) + 5, Min2(o, c) - 5, c)]

\* the bar of a given shape that follows a bar closing at c
NextBar(shape, t, c) ==
    CASE shape = "up"    -> Candle(t, c, c + 15, c + 5, c + 10)
      [] shape = "down"  -> Candle(t, c, c - 5, c - 15, c - 10)
      [] shape = "rally" -> Candle(t, c, c + 105, c - 5, c + 100)
      [] shape = "crash" -> Candle(t, c, c + 5, c - 105, c - 100)
      [] shape = "spike" -> Candle(t, c, c + 300, c - 300, c)

RECURSIVE Extend(_, _)
Extend(rows, shapes) ==
    IF shapes = <<>> THEN rows
    ELSE Extend(Append(rows, NextBar(Head(shapes), Len(rows) + 1, rows[Len(rows)].close)),
                Tail(shapes))

Tails == UNION {[1..n -> Shapes] : n \in 0..MaxTail}

\* ascending series of 50 + n bars
Series == {Extend(WarmUp(r), s) : r \in Regimes, s \in Tails}

\* the same rows with the last two exchanged: a frame that is not sorted
SwapLast(rows) ==
    LET n == Len(rows)
    IN [k \in 1..n |-> IF k = n - 1 THEN rows[n] ELSE IF k = n THEN rows[n - 1] ELSE rows[k]]

\* frames of fewer than 50 rows, the empty frame included
ShortFrames == {SubSeq(WarmUp("up"), 1, n) : n \in {0, 1, min_candles_required - 1}}


-----------------------------------------------------------------------------
(* Indicator library: app/core/indicators.py.  Every series is a sequence  *)
(* indexed like the frame's rows; values are thousandths of a cent.        *)

Closes(rows) == [k \in 1..Len(rows) |-> rows[k].close * 1000]

\* f[a] + ... + f[b], summed by halves
RECURSIVE SumOver(_, _, _)
SumOver(f, a, b) ==
    IF a > b THEN 0
    ELSE IF a = b THEN f[a]
    ELSE LET mid == (a + b) \div 2 IN SumOver(f, a, mid) + SumOver(f, mid + 1, b)

\* one step of ewm(span=period, adjust=False): alpha = 2 / (period + 1)
EmaStep(prev, x, period) == (2 * x + (period - 1) * prev) \div (period + 1)

\* the averages of rows a..b, given the average prev of row a - 1
RECURSIVE EmaRange(_, _, _, _, _)
EmaRange(series, period, a, b, prev) ==
    IF a > b THEN <<>>
    ELSE IF a = b THEN <<EmaStep(prev, series[a], period)>>
    ELSE LET mid == (a + b) \div 2
             left == EmaRange(series, period, a, mid, prev)
         IN left \o EmaRange(series, period, mid + 1, b, left[Len(left)])

\* series.ewm(span=period, adjust=False).mean(): the first average is the first value
calculate_ema(series, period) ==
    IF Len(series) = 0 THEN <<>>
    ELSE <<series[1]>> \o EmaRange(series, period, 2, Len(series), series[1])

\* rolling(window=period).mean() at row t: NaN until the window is full
calculate_sma(series, period, t) ==
    IF t < period THEN NaN
    ELSE Some(SumOver(series, t - period + 1, t) \div period)

MacdLine(ema_fast, ema_slow) == [k \in 1..Len(ema_fast) |-> ema_fast[k] - ema_slow[k]]

calculate_macd(series) ==
    LET macd_line == MacdLine(calculate_ema(series, EMA_FAST), calculate_ema(series, EMA_SLOW))
    IN [macd |-> macd_line, signal |-> calculate_ema(macd_line, MACD_SIGNAL)]

\* delta.where(delta > 0, 0) and -delta.where(delta < 0, 0); the first delta is NaN -> 0
Gain(rows, k) == IF k = 1 THEN 0 ELSE Max2(rows[k].close - rows[k - 1].close, 0)
Loss(rows, k) == IF k = 1 THEN 0 ELSE Max2(rows[k - 1].close - rows[k].close, 0)

\* 100 - 100 / (1 + gain / loss) = 100 * gain / (gain + loss), kept as a fraction;
\* gain = loss = 0 gives 0 / 0 = NaN, loss = 0 < gain gives 100
calculate_rsi(rows, period, t) ==
    IF t < period THEN NaN
    ELSE LET gain == SumOver([k \in 1..t |-> Gain(rows, k)], t - period + 1, t)
             loss == SumOver([k \in 1..t |-> Loss(rows, k)], t - period + 1, t)
         IN IF gain + loss = 0 THEN NaN
            ELSE Some([num |-> 100 * gain, den |-> gain + loss])

TrueRange(rows, k) ==
    IF k = 1 THEN rows[k].high - rows[k].low
    ELSE Max2(rows[k].high - rows[k].low,
              Max2(Abs(rows[k].high - rows[k - 1].close),
                   Abs(rows[k].low - rows[k - 1].close)))

calculate_atr(rows, period, t) ==
    IF t < period THEN NaN
    ELSE Some((1000 * SumOver([k \in 1..t |-> TrueRange(rows, k)], t - period + 1, t))
              \div period)

\* series.diff(period) at row t, in cents
calculate_momentum(rows, period, t) ==
    IF t <= period THEN NaN ELSE Some(rows[t].close - rows[t - period].close)

\* calculate_all_indicators(df).iloc[-1], restricted to the columns the strategy reads
\* (sma_50, macd_histogram and the Bollinger bands are computed and never read)
calculate_all_indicators(rows) ==
    LET n == Len(rows)
        close == Closes(rows)
        macd_data == calculate_macd(close)
    IN [close       |-> rows[n].close,
        ema_12      |-> Some(calculate_ema(close, EMA_FAST)[n]),
        ema_26      |-> Some(calculate_ema(close, EMA_SLOW)[n]),
        sma_20      |-> calculate_sma(close, SMA_SHORT, n),
        macd        |-> Some(macd_data.macd[n]),
        macd_signal |-> Some(macd_data.signal[n]),
        rsi         |-> calculate_rsi(rows, RSI_PERIOD, n),
        atr         |-> calculate_atr(rows, ATR_PERIOD, n),
        momentum    |-> calculate_momentum(rows, MOMENTUM_PERIOD, n)]

-----------------------------------------------------------------------------
(* Signal strategy: app/core/strategy.py *)

Recommendation(signal, confidence, entry_price, stop_loss, take_profit, rationale) ==
    [signal |-> signal, confidence |-> confidence, entry_price |-> entry_price,
     stop_loss |-> stop_loss, take_profit |-> take_profit, rationale |-> rationale]

\* k <= rsi and rsi <= k on the exact fraction
RsiGe(rsi, k) == rsi.num >= k * rsi.den
RsiLe(rsi, k) == rsi.num <= k * rsi.den

\* the five scoring rules, each a record [buy, sell, reason]
TrendRule(latest) ==
    IF isna(latest.ema_12) \/ isna(latest.ema_26) THEN [buy |-> 0, sell |-> 0, reason |-> <<>>]
    ELSE IF latest.ema_12[1] > latest.ema_26[1]
         THEN [buy |-> 25, sell |-> 0, reason |-> <<"EMA 12 > EMA 26 (uptrend)">>]
         ELSE [buy |-> 0, sell |-> 25, reason |-> <<"EMA 12 < EMA 26 (downtrend)">>]

MacdRule(latest) ==
    IF isna(latest.macd) \/ isna(latest.macd_signal) THEN [buy |-> 0, sell |-> 0, reason |-> <<>>]
    ELSE IF latest.macd[1] > latest.macd_signal[1] /\ latest.macd[1] > 0
         THEN [buy |-> 25, sell |-> 0, reason |-> <<"MACD bullish">>]
    ELSE IF latest.macd[1] < latest.macd_signal[1] /\ latest.macd[1] < 0
         THEN [buy |-> 0, sell |-> 25, reason |-> <<"MACD bearish">>]
    ELSE [buy |-> 0, sell |-> 0, reason |-> <<>>]

\* faulty variant: the two RSI ranges are tested independently of each other
RsiRule_both_ranges(latest) ==
    IF isna(latest.rsi) THEN [buy |-> 0, sell |-> 0, reason |-> <<>>]
    ELSE LET rsi == latest.rsi[1]
         IN [buy  |-> IF RsiGe(rsi, 40) /\ RsiLe(rsi, 70) THEN 20 ELSE 0,
             sell |-> IF RsiGe(rsi, 30) /\ RsiLe(rsi, 60) THEN 20 ELSE 0,
             reason |-> <<"RSI">>]

RsiRule(latest) ==
    IF isna(latest.rsi) THEN [buy |-> 0, sell |-> 0, reason |-> <<>>]
    ELSE LET rsi == latest.rsi[1]
         IN IF RsiGe(rsi, 40) /\ RsiLe(rsi, 70)
            THEN [buy |-> 20, sell |-> 0, reason |-> <<"RSI neutral-bullish">>]
            ELSE IF RsiGe(rsi, 30) /\ RsiLe(rsi, 60)
            THEN [buy |-> 0, sell |-> 20, reason |-> <<"RSI neutral-bearish">>]
            ELSE IF ~RsiLe(rsi, 70)
            THEN [buy |-> 0, sell |-> 0, reason |-> <<"RSI overbought">>]
            ELSE [buy |-> 0, sell |-> 0, reason |-> <<"RSI oversold">>]

SmaRule(latest) ==
    IF isna(latest.sma_20) THEN [buy |-> 0, sell |-> 0, reason |-> <<>>]
    ELSE IF latest.close * 1000 > latest.sma_20[1]
         THEN [buy |-> 15, sell |-> 0, reason |-> <<"Price > SMA 20">>]
         ELSE [buy |-> 0, sell |-> 15, reason |-> <<"Price < SMA 20">>]

MomentumRule(latest) ==
    IF isna(latest.momentum) THEN [buy |-> 0, sell |-> 0, reason |-> <<>>]
    ELSE IF latest.momentum[1] > 0
         THEN [buy |-> 15, sell |-> 0, reason |-> <<"Positive momentum">>]
         ELSE [buy |-> 0, sell |-> 15, reason |-> <<"Negative momentum">>]

Rules(latest) ==
    <<TrendRule(latest), MacdRule(latest), RsiRule(latest), SmaRule(latest), MomentumRule(latest)>>

buy_score(latest) ==
    LET r == Rules(latest) IN r[1].buy + r[2].buy + r[3].buy + r[4].buy + r[5].buy
sell_score(latest) ==
    LET r == Rules(latest) IN r[1].sell + r[2].sell + r[3].sell + r[4].sell + r[5].sell
reasons(latest) ==
    LET r == Rules(latest)
    IN r[1].reason \o r[2].reason \o r[3].reason \o r[4].reason \o r[5].reason

confidence_threshold == 50
CONFIDENCE_CAP == 95

\* faulty variant: a tie at or above the threshold is decided as BUY
momentum_trend_strategy_tie_buys(latest) ==
    LET buy == buy_score(latest)
        sell == sell_score(latest)
    IN IF buy >= confidence_threshold /\ buy >= sell
       THEN <<"BUY", Min2(buy, CONFIDENCE_CAP), reasons(latest)>>
       ELSE IF sell >= confidence_threshold /\ sell > buy
       THEN <<"SELL", Min2(sell, CONFIDENCE_CAP), reasons(latest)>>
       ELSE <<"HOLD", Max2(buy, sell),
              IF reasons(latest) = <<>> THEN <<"No clear signal">> ELSE reasons(latest)>>

\* returns <<signal, confidence, rationale>>
momentum_trend_strategy(latest) ==
    LET buy == buy_score(latest)
        sell == sell_score(latest)
    IN IF buy >= confidence_threshold /\ buy > sell
       THEN <<"BUY", Min2(buy, CONFIDENCE_CAP), reasons(latest)>>
       ELSE IF sell >= confidence_threshold /\ sell > buy
       THEN <<"SELL", Min2(sell, CONFIDENCE_CAP), reasons(latest)>>
       ELSE <<"HOLD", Max2(buy, sell),
              IF reasons(latest) = <<>> THEN <<"No clear signal">> ELSE reasons(latest)>>

atr_multiplier_sl == 2
atr_multiplier_tp == 3

\* returns <<stop_loss, take_profit>>; entry_price in cents, atr in thousandths of a cent;
\* round(x, 2) of a dollar amount is rounding to the cent
calculate_sl_tp(signal, entry_price, atr) ==
    IF signal = "HOLD" THEN <<None, None>>
    ELSE IF signal = "BUY"
    THEN <<Some(RoundDiv(entry_price * 1000 - atr_multiplier_sl * atr, 1000)),
           Some(RoundDiv(entry_price * 1000 + atr_multiplier_tp * atr, 1000))>>
    ELSE <<Some(RoundDiv(entry_price * 1000 + atr_multiplier_sl * atr, 1000)),
           Some(RoundDiv(entry_price * 1000 - atr_multiplier_tp * atr, 1000))>>

STRATEGY_REQUIRED_COLS == {"open", "high", "low", "close", "volume"}

Hold(rationale) == Recommendation("HOLD", 0, None, None, None, <<rationale>>)

\* faulty variant: rsi is not among the indicators tested
critical_without_rsi(latest) ==
    <<latest.macd, latest.ema_12, latest.ema_26, latest.sma_20, latest.atr>>

\* the values of critical_indicators = ['rsi', 'macd', 'ema_12', 'ema_26', 'sma_20', 'atr']
critical_indicators(latest) ==
    <<latest.rsi, latest.macd, latest.ema_12, latest.ema_26, latest.sma_20, latest.atr>>

\* any(pd.isna(latest.get(ind)) for ind in critical_indicators)
HasNaN(latest) ==
    \E k \in DOMAIN critical_indicators(latest) : isna(critical_indicators(latest)[k])

\* the strategy applied to the latest indicator row
Decide(latest) ==
    LET s == momentum_trend_strategy(latest)
        entry_price == latest.close
        atr_value == IF isna(latest.atr) THEN (entry_price * 1000 * 2) \div 100 ELSE latest.atr[1]
        sl_tp == calculate_sl_tp(s[1], entry_price, atr_value)
    IN Recommendation(s[1], s[2], Some(entry_price), sl_tp[1], sl_tp[2], s[3])

\* generate_recommendation(symbol, interval, candles); bad: calculate_all_indicators raises
generate_recommendation(rows, cols, bad) ==
    IF Len(rows) < min_candles_required THEN Hold("Insufficient data")
    ELSE IF STRATEGY_REQUIRED_COLS \ cols # {} THEN Hold("Missing columns")
    ELSE IF bad THEN Hold("Error calculating indicators")
    ELSE LET latest == calculate_all_indicators(rows)
         IN IF HasNaN(latest)
            THEN Hold("Insufficient data for indicator calculation (NaN values)")
            ELSE Decide(latest)


-----------------------------------------------------------------------------
(* Backtest engine: app/core/backtest.py *)

INITIAL_CAPITAL == 1000000
POSITION_SIZE_PCT == 10
\* TRADING_FEE_PCT = 0.1 % and SLIPPAGE_PCT = 0.05 %, as parts per 100000
TRADING_FEE_PPM == 100
SLIPPAGE_PPM == 50
MIN_TRADES_FOR_RELIABILITY == 30
MIN_DATA_WINDOW_DAYS == 730
MIN_PROFIT_FACTOR == 100
MAX_DRAWDOWN_PCT == 5000
MIN_TOTAL_RETURN_PCT == 0

RUN_REQUIRED_COLS == {"timestamp", "open", "high", "low", "close", "volume"}

\* Timestamp.isoformat() and pd.to_datetime() of that string
isoformat(t) == <<"iso", t>>
to_datetime(str) == str[2]

\* Python truthiness of an Optional[float]: None and 0.0 are false
Truthy(x) == x # None /\ x[1] # 0

\* position of row j in the sorted frame: rows with an earlier timestamp come first,
\* rows with the same timestamp keep their order
RankOf(rows, j) ==
    1 + Cardinality({m \in 1..Len(rows) :
            \/ rows[m].timestamp < rows[j].timestamp
            \/ rows[m].timestamp = rows[j].timestamp /\ m < j})

\* faulty variant: the frame is walked in the order it was handed over
as_received(rows) == rows

\* sort_values('timestamp').reset_index(drop=True)
sort_values(rows) ==
    IF \A k \in 1..(Len(rows) - 1) : rows[k].timestamp <= rows[k + 1].timestamp
    THEN rows
    ELSE LET ranked == {<<RankOf(rows, j), j>> : j \in 1..Len(rows)}
         IN [k \in 1..Len(rows) |-> rows[(CHOOSE p \in ranked : p[1] = k)[2]]]

\* faulty variant: the strategy is handed the whole frame
all_candles(rows, k) == rows

\* candles.iloc[:i+1] for the 0-based i of the code
prev_candles(rows, k) == SubSeq(rows, 1, k + 1)

\* price * (1 + slippage_pct) and price * (1 - slippage_pct); price in cents,
\* result in tenths of a cent
PayMore(price) == RoundDiv(price * (100000 + SLIPPAGE_PPM), 10000)
ReceiveLess(price) == RoundDiv(price * (100000 - SLIPPAGE_PPM), 10000)

\* opening a trade on candle with the recommendation rec: lines 171-201
OpenTrade(rec, candle, eq) ==
    LET entry_price_base == IF Truthy(rec.entry_price) THEN rec.entry_price[1] ELSE candle.close
        entry_price == IF rec.signal = "BUY" THEN PayMore(entry_price_base)
                       ELSE ReceiveLess(entry_price_base)
        position_value == (eq * POSITION_SIZE_PCT) \div 100
    IN [entry_time     |-> candle.timestamp,
        exit_time      |-> None,
        entry_price    |-> entry_price,
        exit_price     |-> None,
        stop_loss      |-> rec.stop_loss[1],
        take_profit    |-> rec.take_profit[1],
        signal         |-> rec.signal,
        confidence     |-> rec.confidence,
        position_value |-> position_value,
        entry_fee      |-> RoundDiv(position_value * TRADING_FEE_PPM, 100000),
        exit_fee       |-> None,
        slippage_cost  |-> RoundDiv(position_value * SLIPPAGE_PPM, 100000),
        pnl            |-> None,
        pnl_pct        |-> None,
        exit_reason    |-> None]

\* faulty variant: the take-profit is tested before the stop-loss
check_exit_tp_first(trade, candle) ==
    IF trade.signal = "BUY"
    THEN IF candle.high >= trade.take_profit
         THEN <<Some(trade.take_profit), Some("Take Profit")>>
         ELSE IF candle.low <= trade.stop_loss
              THEN <<Some(trade.stop_loss), Some("Stop Loss")>>
              ELSE <<None, None>>
    ELSE IF candle.low <= trade.take_profit
         THEN <<Some(trade.take_profit), Some("Take Profit")>>
         ELSE IF candle.high >= trade.stop_loss
              THEN <<Some(trade.stop_loss), Some("Stop Loss")>>
              ELSE <<None, None>>

\* faulty variant: the bar a trade was opened on is not tested
check_exit_after_entry_bar(trade, candle) ==
    IF candle.timestamp = trade.entry_time THEN <<None, None>>
    ELSE IF trade.signal = "BUY"
    THEN IF candle.low <= trade.stop_loss THEN <<Some(trade.stop_loss), Some("Stop Loss")>>
         ELSE IF candle.high >= trade.take_profit
              THEN <<Some(trade.take_profit), Some("Take Profit")>>
              ELSE <<None, None>>
    ELSE IF candle.high >= trade.stop_loss THEN <<Some(trade.stop_loss), Some("Stop Loss")>>
         ELSE IF candle.low <= trade.take_profit
              THEN <<Some(trade.take_profit), Some("Take Profit")>>
              ELSE <<None, None>>

\* _check_exit(trade, candle): <<exit_price, exit_reason>> or <<None, None>>
check_exit(trade, candle) ==
    IF trade.signal = "BUY"
    THEN IF candle.low <= trade.stop_loss THEN <<Some(trade.stop_loss), Some("Stop Loss")>>
         ELSE IF candle.high >= trade.take_profit
              THEN <<Some(trade.take_profit), Some("Take Profit")>>
              ELSE <<None, None>>
    ELSE IF candle.high >= trade.stop_loss THEN <<Some(trade.stop_loss), Some("Stop Loss")>>
         ELSE IF candle.low <= trade.take_profit
              THEN <<Some(trade.take_profit), Some("Take Profit")>>
              ELSE <<None, None>>

\* exit_value = position_size * exit_price with position_size = position_value / entry_price,
\* computed as position_value + position_value * (exit - entry) / entry
ExitValue(trade, exit_price_with_slippage) ==
    trade.position_value
    + RoundDiv(trade.position_value * (exit_price_with_slippage - trade.entry_price),
               trade.entry_price)

\* net P&L of closing trade at exit_price_with_slippage: lines 222-239 and 280-295
NetPnl(trade, exit_price_with_slippage) ==
    LET exit_value == ExitValue(trade, exit_price_with_slippage)
        exit_fee == RoundDiv(exit_value * TRADING_FEE_PPM, 100000)
        gross_pnl == IF trade.signal = "BUY" THEN exit_value - trade.position_value
                     ELSE trade.position_value - exit_value
    IN gross_pnl - (trade.entry_fee + exit_fee + trade.slippage_cost)

\* the trade closed at exit_price (cents, before slippage) at time t: lines 211-245, 270-301
CloseTrade(trade, exit_price, exit_reason, t) ==
    LET exit_price_with_slippage == IF trade.signal = "BUY" THEN ReceiveLess(exit_price)
                                    ELSE PayMore(exit_price)
        exit_value == ExitValue(trade, exit_price_with_slippage)
        net_pnl == NetPnl(trade, exit_price_with_slippage)
    IN [trade EXCEPT
            !.exit_time   = Some(t),
            !.exit_price  = Some(exit_price_with_slippage),
            !.exit_reason = Some(exit_reason),
            !.exit_fee    = Some(RoundDiv(exit_value * TRADING_FEE_PPM, 100000)),
            !.pnl         = Some(net_pnl),
            !.pnl_pct     = Some(IF trade.position_value > 0
                                 THEN RoundDiv(net_pnl * 10000, trade.position_value)
                                 ELSE 0)]

-----------------------------------------------------------------------------
(* Metrics: BacktestEngine._calculate_metrics.  Ratios that are compared    *)
(* with a threshold are compared exactly, before rounding, as the code      *)
(* does; the reported values are rounded to hundredths.                     *)

\* a float that may exceed every threshold: a finite value in hundredths, a finite
\* value above 1e10, or float('inf')
Finite(v) == [mag |-> "finite", v |-> v]
Above1e10 == [mag |-> "above_1e10", v |-> 0]
Infinity == [mag |-> "inf", v |-> 0]

RECURSIVE SumSeq(_)
SumSeq(xs) == IF xs = <<>> THEN 0 ELSE xs[Len(xs)] + SumSeq(SubSeq(xs, 1, Len(xs) - 1))

\* x / p > m / 100 and x / p >= m / 100 for p > 0, x the numerator scaled by 100
FracGt(x, p, m) == LET q == x \div p IN q > m \/ (q = m /\ x % p > 0)
FracGe(x, p, m) == x \div p >= m

IsWinner(t) == Truthy(t.pnl_pct) /\ t.pnl_pct[1] > 0
IsLoser(t) == Truthy(t.pnl_pct) /\ t.pnl_pct[1] <= 0

PnlPcts(ts) == [k \in 1..Len(ts) |-> ts[k].pnl_pct[1]]
Pnls(ts) == [k \in 1..Len(ts) |-> ts[k].pnl[1]]

\* avg_profit_pct / avg_loss_pct as numerator and denominator, in hundredths;
\* a zero denominator stands for avg_loss_pct = 0
ProfitFactorFrac(ts) ==
    LET winning_trades == SelectSeq(ts, IsWinner)
        losing_trades == SelectSeq(ts, IsLoser)
        sum_profit == SumSeq(PnlPcts(winning_trades))
        sum_loss == Abs(SumSeq(PnlPcts(losing_trades)))
    IN IF losing_trades = <<>> \/ sum_loss = 0 THEN [num |-> 0, den |-> 0]
       ELSE IF winning_trades = <<>> THEN [num |-> 0, den |-> 1]
       ELSE [num |-> 100 * sum_profit * Len(losing_trades),
             den |-> Len(winning_trades) * sum_loss]

\* profit_factor = avg_profit_pct / avg_loss_pct if avg_loss_pct > 0 else 0.0, rounded
profit_factor_of(ts) ==
    LET f == ProfitFactorFrac(ts) IN IF f.den = 0 THEN 0 ELSE RoundDiv(f.num, f.den)

\* profit_factor >= settings.MIN_PROFIT_FACTOR on the unrounded value
ProfitFactorOk(ts) ==
    LET f == ProfitFactorFrac(ts)
    IN IF f.den = 0 THEN 0 >= MIN_PROFIT_FACTOR ELSE FracGe(f.num, f.den, MIN_PROFIT_FACTOR)

RECURSIVE InsertPoint(_, _)
InsertPoint(points, pt) ==
    IF points = <<>> THEN <<pt>>
    ELSE IF to_datetime(points[Len(points)].timestamp) <= to_datetime(pt.timestamp)
         THEN Append(points, pt)
    ELSE Append(InsertPoint(SubSeq(points, 1, Len(points) - 1), pt), points[Len(points)])

\* equity_df.sort_values('timestamp').reset_index(drop=True)
RECURSIVE SortCurve(_)
SortCurve(points) ==
    IF points = <<>> THEN <<>>
    ELSE InsertPoint(SortCurve(SubSeq(points, 1, Len(points) - 1)), points[Len(points)])

\* running peak after the first k points, starting from initial_equity
RECURSIVE PeakAt(_, _)
PeakAt(eqs, k) == IF k = 0 THEN eqs[1] ELSE Max2(eqs[k], PeakAt(eqs, k - 1))

\* max over the curve of (peak - equity) / peak * 100, rounded to hundredths
RECURSIVE max_drawdown_of(_, _)
max_drawdown_of(eqs, k) ==
    IF k = 0 THEN 0
    ELSE Max2(RoundDiv((PeakAt(eqs, k) - eqs[k]) * 10000, PeakAt(eqs, k)),
              max_drawdown_of(eqs, k - 1))

\* max_drawdown > settings.MAX_DRAWDOWN_PCT on the unrounded value
DrawdownTooHigh(eqs) ==
    \E k \in 1..Len(eqs) :
        FracGt((PeakAt(eqs, k) - eqs[k]) * 10000, PeakAt(eqs, k), MAX_DRAWDOWN_PCT)

\* equity_df['equity'].pct_change().dropna(), in hundredths of a percent
Returns(eqs) ==
    [k \in 1..(Len(eqs) - 1) |-> RoundDiv((eqs[k + 1] - eqs[k]) * 10000, eqs[k])]

\* the Sharpe ratio is a function of the returns alone: it is kept as that term
sharpe_ratio_of(eqs) ==
    LET daily_returns == Returns(eqs)
    IN IF Len(daily_returns) > 1
       THEN IF \E k \in 1..Len(daily_returns) : daily_returns[k] # daily_returns[1]
            THEN <<"mean/std*sqrt(252)*100", daily_returns>>
            ELSE <<"value", 0>>
       ELSE <<"value", 0>>

\* the annualised CAGR is a function of final / initial and the days: kept as that term
cagr_of(initial_equity, final_equity, days, total_return) ==
    IF days > 0 THEN <<"(final/initial)^(365.25/days)-1", final_equity, initial_equity, days>>
    ELSE <<"value", total_return>>

empty_metrics(reason) ==
    [total_trades |-> 0, win_rate |-> 0, profit_factor |-> Some(Finite(0)), expectancy |-> 0,
     cagr |-> <<"value", 0>>, sharpe_ratio |-> <<"value", 0>>, max_drawdown |-> 0,
     total_return |-> 0, is_reliable |-> FALSE, reason |-> Some(<<reason>>)]

ReasonIf(cond, text) == IF cond THEN <<text>> ELSE <<>>

calculate_metrics(ts, curve) ==
    IF ts = <<>> THEN empty_metrics("No trades generated")
    ELSE IF Len(curve) < 2 THEN empty_metrics("Insufficient equity curve data")
    ELSE
    LET total_trades == Len(ts)
        win_count == Len(SelectSeq(ts, IsWinner))
        equity_df == SortCurve(curve)
        eqs == [k \in 1..Len(equity_df) |-> equity_df[k].equity]
        initial_equity == eqs[1]
        final_equity == eqs[Len(eqs)]
        total_return_gt_min ==
            FracGt((final_equity - initial_equity) * 10000, initial_equity,
                   MIN_TOTAL_RETURN_PCT)
        total_return == RoundDiv((final_equity - initial_equity) * 10000, initial_equity)
        days == to_datetime(equity_df[Len(equity_df)].timestamp)
                - to_datetime(equity_df[1].timestamp)
        is_reliable == /\ total_trades >= MIN_TRADES_FOR_RELIABILITY
                       /\ ProfitFactorOk(ts)
                       /\ total_return_gt_min
                       /\ ~DrawdownTooHigh(eqs)
        why == ReasonIf(total_trades < MIN_TRADES_FOR_RELIABILITY, "Only n trades")
               \o ReasonIf(~ProfitFactorOk(ts), "Profit factor < min")
               \o ReasonIf(~total_return_gt_min, "Total return <= min")
               \o ReasonIf(DrawdownTooHigh(eqs), "Max drawdown > max")
    IN [total_trades  |-> total_trades,
        win_rate      |-> RoundDiv(win_count * 10000, total_trades),
        profit_factor |-> Some(Finite(profit_factor_of(ts))),
        expectancy    |-> RoundDiv(SumSeq(Pnls(ts)), total_trades),
        cagr          |-> cagr_of(initial_equity, final_equity, days, total_return),
        sharpe_ratio  |-> sharpe_ratio_of(eqs),
        max_drawdown  |-> max_drawdown_of(eqs, Len(eqs)),
        total_return  |-> total_return,
        period_days   |-> days,
        is_reliable   |-> is_reliable,
        reason        |-> IF is_reliable THEN None
                          ELSE IF why # <<>> THEN Some(why) ELSE Some(<<"Unknown">>)]

BacktestResult(ts, curve, metrics) == [trades |-> ts, equity_curve |-> curve, metrics |-> metrics]

empty_result(reason) == BacktestResult(<<>>, <<>>, empty_metrics(reason))

-----------------------------------------------------------------------------
(* BacktestEngine.run as a state machine.  One engine, called twice on the  *)
(* same frame.                                                              *)

\* the locals of run before any call has bound them
RunIdle ==
    /\ sorted_candles = <<>>
    /\ i = 0
    /\ current_trade = None
    /\ trades = <<>>
    /\ equity = 0
    /\ equity_curve = <<>>
    /\ result = None
    /\ run_no = 1
    /\ first_result = None
    /\ consults = 0
    /\ opened = 0
    /\ closed_on_bar = FALSE
    /\ consulted_at = None

\* no policy evaluation and no request under way
GateIdle ==
    /\ risk_metrics = None
    /\ risk_validation = None
    /\ cache_validation = None
    /\ window_days = None
    /\ policy_violations = None
    /\ risk_evaluation = None
    /\ request = None
    /\ response = None
    /\ snapshots = <<>>
    /\ errors = <<>>

\* frames missing at most one column
ColumnSets == {ALL_COLUMNS} \cup {ALL_COLUMNS \ {c} : c \in ALL_COLUMNS}

SmallFrames == ShortFrames \cup {Extend(WarmUp(r), <<"up">>) : r \in Regimes}

InitRun ==
    /\ \/ /\ candles \in Series \cup {SwapLast(Extend(WarmUp("up"), s)) : s \in Tails}
          /\ columns = ALL_COLUMNS
          /\ bad_values = FALSE
       \/ /\ candles \in SmallFrames
          /\ columns \in ColumnSets
          /\ bad_values \in BOOLEAN
    /\ pc = "run_call"
    /\ recommendation = None
    /\ RunIdle
    /\ GateIdle

Candle_i == sorted_candles[i + 1]

MIN_CANDLES == 50
START_INDEX == 50

\* faulty variant: only the empty frame is refused
EmptyFrameOnly(rows) == Len(rows) = 0

\* candles.empty or len(candles) < 50
InsufficientCandles(rows) == Len(rows) < MIN_CANDLES

\* the columns of required_cols the frame lacks
missing_cols(cols) == RUN_REQUIRED_COLS \ cols

\* faulty variant: the trade list outlives the call
KeptTrades(earlier) == earlier

\* trades = [] at the start of a call, whatever an earlier call left
NewTrades(earlier) == <<>>

\* faulty variant: a signal is looked for on every bar
AnyBar(trade) == TRUE

\* if current_trade is None
NoOpenTrade(trade) == trade = None

\* faulty variant: the frame's first row
first_candle(rows) == rows[1]

\* candles.iloc[-1]
last_candle(rows) == rows[Len(rows)]

LoopOrEnd(k, rows) == IF k < Len(rows) THEN "signal" ELSE "end_of_data"

\* lines 129-153: validation, sort, initialisation of the locals
RunStart ==
    /\ pc = "run_call"
    /\ consults' = 0
    /\ opened' = 0
    /\ closed_on_bar' = FALSE
    /\ consulted_at' = None
    /\ IF InsufficientCandles(candles) \/ missing_cols(columns) # {}
       THEN /\ result' = Some(empty_result(
                    IF InsufficientCandles(candles)
                    THEN "Insufficient candles for backtest" ELSE "Missing columns"))
            /\ pc' = "run_returned"
            /\ UNCHANGED <<sorted_candles, i, current_trade, trades, equity, equity_curve>>
       ELSE /\ sorted_candles' = sort_values(candles)
            /\ trades' = NewTrades(trades)
            /\ equity' = INITIAL_CAPITAL
            /\ equity_curve' = <<[timestamp |-> isoformat(sorted_candles'[1].timestamp),
                                  equity |-> INITIAL_CAPITAL]>>
            /\ i' = START_INDEX
            /\ current_trade' = None
            /\ result' = None
            /\ pc' = LoopOrEnd(START_INDEX, candles)
    /\ UNCHANGED <<inputVars, gateVars, recommendation, run_no, first_result>>

\* may a trade be opened on this recommendation: lines 168-170
OpensTrade(rec) ==
    rec.signal \in {"BUY", "SELL"} /\ Truthy(rec.stop_loss) /\ Truthy(rec.take_profit)

\* lines 159-201: with no open trade, consult the strategy on candles[:i+1]
SignalStep ==
    /\ pc = "signal"
    /\ IF NoOpenTrade(current_trade)
       THEN LET rec == generate_recommendation(prev_candles(sorted_candles, i),
                                               columns, bad_values)
            IN /\ recommendation' = Some(rec)
               /\ consults' = consults + 1
               /\ consulted_at' = Some(i)
               /\ IF OpensTrade(rec)
                  THEN /\ current_trade' = Some(OpenTrade(rec, Candle_i, equity))
                       /\ opened' = opened + 1
                  ELSE UNCHANGED <<current_trade, opened>>
       ELSE /\ consulted_at' = None
            /\ UNCHANGED <<recommendation, consults, current_trade, opened>>
    /\ pc' = "exit_check"
    /\ UNCHANGED <<inputVars, gateVars, sorted_candles, i, trades, equity, equity_curve, result,
                   run_no, first_result, closed_on_bar>>

\* lines 203-250: with an open trade, test the bar's high and low against SL / TP
ExitStep ==
    /\ pc = "exit_check"
    /\ IF current_trade # None /\ check_exit(current_trade[1], Candle_i)[1] # None
       THEN LET x == check_exit(current_trade[1], Candle_i)
                closed == CloseTrade(current_trade[1], x[1][1], x[2][1], Candle_i.timestamp)
            IN /\ trades' = Append(trades, closed)
               /\ equity' = equity + closed.pnl[1]
               /\ current_trade' = None
               /\ closed_on_bar' = TRUE
       ELSE UNCHANGED <<trades, equity, current_trade, closed_on_bar>>
    /\ pc' = "record"
    /\ UNCHANGED <<inputVars, gateVars, recommendation, sorted_candles, i, equity_curve, result,
                   run_no, first_result, consults, opened, consulted_at>>

\* lines 252-263: one equity point per bar, next bar
RecordEquity ==
    /\ pc = "record"
    /\ equity_curve' = Append(equity_curve,
                              [timestamp |-> isoformat(Candle_i.timestamp), equity |-> equity])
    /\ i' = i + 1
    /\ closed_on_bar' = FALSE
    /\ consulted_at' = None
    /\ pc' = LoopOrEnd(i + 1, sorted_candles)
    /\ UNCHANGED <<inputVars, gateVars, recommendation, sorted_candles, current_trade, trades, equity,
                   result, run_no, first_result, consults, opened>>

\* lines 265-314: close the trade left open at the last close, compute metrics, return
FinishRun ==
    /\ pc = "end_of_data"
    /\ IF current_trade # None
       THEN LET last == last_candle(sorted_candles)
                closed == CloseTrade(current_trade[1], last.close, "End of data",
                                     last.timestamp)
            IN /\ trades' = Append(trades, closed)
               /\ equity' = equity + closed.pnl[1]
               /\ current_trade' = Some(closed)
       ELSE UNCHANGED <<trades, equity, current_trade>>
    /\ result' = Some(BacktestResult(trades', equity_curve,
                                     calculate_metrics(trades', equity_curve)))
    /\ pc' = "run_returned"
    /\ UNCHANGED <<inputVars, gateVars, recommendation, sorted_candles, i, equity_curve, run_no,
                   first_result, consults, opened, closed_on_bar, consulted_at>>

\* the caller keeps the first result and calls run again with the same frame
RunAgain ==
    /\ pc = "run_returned"
    /\ run_no = 1
    /\ first_result' = result
    /\ run_no' = 2
    /\ result' = None
    /\ pc' = "run_call"
    /\ UNCHANGED <<inputVars, gateVars, recommendation, sorted_candles, i, current_trade, trades,
                   equity, equity_curve, consults, opened, closed_on_bar, consulted_at>>

NextRun ==
    \/ RunStart
    \/ SignalStep
    \/ ExitStep
    \/ RecordEquity
    \/ FinishRun
    \/ RunAgain

SpecRun == InitRun /\ [][NextRun]_vars

-----------------------------------------------------------------------------
(* Properties of BacktestEngine.run, checked under SpecRun *)

InLoop == pc \in {"signal", "exit_check", "record", "end_of_data"}
Returned == pc = "run_returned" /\ result # None
IsOpen(trade) == trade.exit_time = None

\* C1: at every point of the bar loop at most one trade is open: the trades opened
\* and not yet closed are none, or the single current_trade; the strategy is
\* consulted on a bar only if no trade was open when the bar began
C1_AtMostOneOpenTrade ==
    InLoop =>
        /\ opened - Len(trades) \in {0, 1}
        /\ opened - Len(trades) = 1 <=> (current_trade # None /\ IsOpen(current_trade[1]))
        /\ (pc = "exit_check" /\ consulted_at # None /\ current_trade # None)
               => current_trade[1].entry_time = Candle_i.timestamp

\* a bar is processed with a trade open from an earlier bar, and no signal is asked for
C1_Witness ==
    /\ pc = "exit_check"
    /\ current_trade # None
    /\ current_trade[1].entry_time < Candle_i.timestamp
    /\ consulted_at = None

\* the bar reaches the stop-loss and the take-profit of the trade
BothHit(trade, candle) ==
    IF trade.signal = "BUY"
    THEN candle.low <= trade.stop_loss /\ candle.high >= trade.take_profit
    ELSE candle.high >= trade.stop_loss /\ candle.low <= trade.take_profit

\* the stop-loss price after slippage, as a closed trade records it
SlippedStop(trade) ==
    IF trade.signal = "BUY" THEN ReceiveLess(trade.stop_loss) ELSE PayMore(trade.stop_loss)

CandleAt(t) == sorted_candles[CHOOSE k \in 1..Len(sorted_candles) : sorted_candles[k].timestamp = t]

\* C2: a bar that reaches both the stop-loss and the take-profit of the open trade,
\* BUY or SELL, exits at the stop-loss price with reason "Stop Loss"; the trade is
\* recorded closed at that price (less slippage), never at the take-profit
C2_StopLossFirst ==
    /\ (pc = "exit_check" /\ current_trade # None /\ BothHit(current_trade[1], Candle_i))
           => check_exit(current_trade[1], Candle_i)
                  = <<Some(current_trade[1].stop_loss), Some("Stop Loss")>>
    /\ InLoop =>
           \A k \in 1..Len(trades) :
               BothHit(trades[k], CandleAt(trades[k].exit_time[1]))
                   => /\ trades[k].exit_reason = Some("Stop Loss")
                      /\ trades[k].exit_price = Some(SlippedStop(trades[k]))

\* a BUY trade was closed on a bar that reached both of its levels
C2_Witness ==
    /\ pc = "record"
    /\ trades # <<>>
    /\ trades[Len(trades)].signal = "BUY"
    /\ trades[Len(trades)].exit_time = Some(Candle_i.timestamp)
    /\ BothHit(trades[Len(trades)], Candle_i)

\* the same for a SELL trade
C2_WitnessSell ==
    /\ pc = "record"
    /\ trades # <<>>
    /\ trades[Len(trades)].signal = "SELL"
    /\ trades[Len(trades)].exit_time = Some(Candle_i.timestamp)
    /\ BothHit(trades[Len(trades)], Candle_i)

\* the first k + 1 rows of the sorted frame
Truncated(k) == [j \in 1..(k + 1) |-> sorted_candles[j]]

\* C3: the recommendation used at bar i >= 50 is generate_recommendation of the
\* sorted series truncated at i: a function of bars 0..i alone, hence the same for
\* every series that agrees with this one up to i
C3_NoLookahead ==
    (pc = "exit_check" /\ consulted_at # None) =>
        /\ consulted_at = Some(i)
        /\ i >= 50
        /\ recommendation = Some(generate_recommendation(Truncated(i), columns, bad_values))

\* the strategy is consulted on a bar that is not the last, and the whole frame
\* would have been decided otherwise
C3_Witness ==
    /\ pc = "exit_check"
    /\ consulted_at = Some(i)
    /\ i + 1 < Len(sorted_candles)
    /\ recommendation[1].signal \in {"BUY", "SELL"}
    /\ generate_recommendation(sorted_candles, columns, bad_values).signal
           # recommendation[1].signal

\* C7: the second call of run on the same frame returns the trades, the equity
\* curve and the metrics of the first
C7_Deterministic ==
    (pc = "run_returned" /\ run_no = 2) => result = first_result

\* the second call returned a result with closed trades
C7_Witness ==
    /\ pc = "run_returned"
    /\ run_no = 2
    /\ result # None
    /\ Len(result[1].trades) >= 2

IsClosed(trade) ==
    /\ trade.exit_time # None
    /\ trade.exit_price # None
    /\ trade.pnl # None
    /\ trade.exit_reason # None

\* the trade as it was while open
Reopened(trade) ==
    [trade EXCEPT !.exit_time = None, !.exit_price = None, !.exit_fee = None,
                  !.pnl = None, !.pnl_pct = None, !.exit_reason = None]

\* C8: every trade of the returned list is closed, every trade opened is in the list,
\* only the last can carry "End of data", and that one is closed at the time and the
\* close of the last candle, with the slippage, fee and P&L of any other exit
C8_ForcedClose ==
    Returned =>
        LET ts == result[1].trades
            last == sorted_candles[Len(sorted_candles)]
        IN /\ \A k \in 1..Len(ts) : IsClosed(ts[k])
           /\ ts # <<>> => opened = Len(ts)
           /\ \A k \in 1..(Len(ts) - 1) : ts[k].exit_reason # Some("End of data")
           /\ \A k \in 1..Len(ts) :
                  ts[k].exit_reason = Some("End of data") =>
                      /\ ts[k].exit_time = Some(last.timestamp)
                      /\ ts[k].exit_price = Some(IF ts[k].signal = "BUY"
                                                 THEN ReceiveLess(last.close)
                                                 ELSE PayMore(last.close))
                      /\ ts[k].pnl = Some(NetPnl(Reopened(ts[k]), ts[k].exit_price[1]))
                      /\ ts[k].exit_fee
                             = Some(RoundDiv(ExitValue(Reopened(ts[k]), ts[k].exit_price[1])
                                             * TRADING_FEE_PPM, 100000))

\* run returned trades closed by a level, then one closed by the end of the data
C8_Witness ==
    /\ Returned
    /\ Len(result[1].trades) >= 2
    /\ result[1].trades[Len(result[1].trades)].exit_reason = Some("End of data")

\* C9: on fewer than 50 candles, or a frame lacking one of timestamp, open, high, low,
\* close, volume, run returns no trades, an empty equity curve and metrics with a
\* reason and is_reliable false, and the strategy was not consulted
C9_EmptyResult ==
    (pc = "run_returned" /\ (Len(candles) < 50 \/ ~(ALL_COLUMNS \subseteq columns))) =>
        /\ result # None
        /\ result[1].trades = <<>>
        /\ result[1].equity_curve = <<>>
        /\ result[1].metrics.reason # None
        /\ result[1].metrics.reason[1] # <<>>
        /\ result[1].metrics.is_reliable = FALSE
        /\ result[1].metrics.total_trades = 0
        /\ consults = 0

\* run returned on a frame of 49 rows with every column
C9_Witness ==
    /\ pc = "run_returned"
    /\ Len(candles) = 49
    /\ ALL_COLUMNS \subseteq columns
    /\ result # None
    /\ result[1].metrics.reason = Some(<<"Insufficient candles for backtest">>)

\* run returned on a frame of 51 rows without its timestamp column
C9_WitnessColumns ==
    /\ pc = "run_returned"
    /\ Len(candles) > 50
    /\ "timestamp" \notin columns
    /\ result # None
    /\ result[1].metrics.reason = Some(<<"Missing columns">>)

\* the trade was opened and closed on one bar
SameBar(trade) == trade.exit_time = Some(trade.entry_time)

\* C23: the trades returned by run on N >= 50 candles number at most N - 50, trades
\* opened and closed on one bar and the trade closed at the end of the data counted;
\* while the loop is at bar i, the trades opened so far number at most i - 50, plus
\* one once bar i itself was looked at
C23_TradesBounded ==
    /\ (Returned /\ Len(candles) >= MIN_CANDLES) =>
           Len(result[1].trades) <= Len(candles) - START_INDEX
    /\ InLoop =>
           /\ Len(trades) <= opened
           /\ opened <= (i - START_INDEX) + (IF pc \in {"exit_check", "record"} THEN 1 ELSE 0)

\* run returned as many trades as there are bars after the warm-up, one of them opened
\* and closed on one bar
C23_Witness ==
    /\ Returned
    /\ Len(candles) >= MIN_CANDLES + 2
    /\ Len(result[1].trades) = Len(candles) - START_INDEX
    /\ \E k \in 1..Len(result[1].trades) : SameBar(result[1].trades[k])

\* run returned a trade closed at the end of the data after a same-bar trade
C23_WitnessEndOfData ==
    /\ Returned
    /\ Len(result[1].trades) >= 2
    /\ SameBar(result[1].trades[1])
    /\ result[1].trades[Len(result[1].trades)].exit_reason = Some("End of data")

\* the trades of a list follow one another in time
InSequence(ts) ==
    /\ \A k \in 1..Len(ts) :
           ts[k].exit_time # None => ts[k].exit_time[1] >= ts[k].entry_time
    /\ \A k \in 2..Len(ts) :
           /\ ts[k].entry_time >= ts[k - 1].entry_time
           /\ ts[k - 1].exit_time # None /\ ts[k].entry_time >= ts[k - 1].exit_time[1]

\* C24: the trade list run returns is in chronological order by entry time and its
\* trades do not overlap: a trade's entry_time is not earlier than the exit_time of
\* the trade before it, and its exit_time is not earlier than its own entry_time;
\* the same holds of the list with the open trade at every point of the loop
C24_ChronologicalTrades ==
    /\ Returned => InSequence(result[1].trades)
    /\ InLoop => InSequence(IF current_trade # None /\ IsOpen(current_trade[1])
                            THEN Append(trades, current_trade[1]) ELSE trades)

\* run returned two trades or more on a frame that was handed over unsorted, the
\* last of them closed on the bar that arrived out of place
C24_Witness ==
    /\ Returned
    /\ candles # sorted_candles
    /\ Len(result[1].trades) >= 2
    /\ result[1].trades[Len(result[1].trades)].exit_time
           = Some(candles[Len(candles) - 1].timestamp)

\* the bar's high or low reaches the stop-loss or the take-profit of the trade
Reaches(trade, candle) ==
    IF trade.signal = "BUY"
    THEN candle.low <= trade.stop_loss \/ candle.high >= trade.take_profit
    ELSE candle.high >= trade.stop_loss \/ candle.low <= trade.take_profit

\* C26: exit checks start on the entry bar: once bar i was processed, no trade is left
\* open whose levels bar i reaches, the trade opened on bar i included, so a trade
\* opened on a bar that reaches its levels is closed on it (exit_time = entry_time);
\* and on a bar that closed a trade opened earlier the strategy was not consulted and
\* no trade is open afterwards
C26_ExitOnEntryBar ==
    pc = "record" =>
        /\ current_trade # None =>
               /\ ~Reaches(current_trade[1], Candle_i)
               /\ ~closed_on_bar
        /\ closed_on_bar =>
               LET closed == trades[Len(trades)]
               IN /\ closed.exit_time = Some(Candle_i.timestamp)
                  /\ closed.entry_time <= Candle_i.timestamp
                  /\ Reaches(closed, Candle_i)
                  /\ consulted_at # None <=> SameBar(closed)
                  /\ closed.entry_time < Candle_i.timestamp => consulted_at = None

\* a trade was opened and closed in one iteration of the loop
C26_Witness ==
    /\ pc = "record"
    /\ closed_on_bar
    /\ consulted_at = Some(i)
    /\ SameBar(trades[Len(trades)])
    /\ trades[Len(trades)].entry_time = Candle_i.timestamp

\* a bar closed a trade opened on an earlier bar, and no signal was asked for on it
C26_WitnessNoReentry ==
    /\ pc = "record"
    /\ closed_on_bar
    /\ consulted_at = None
    /\ trades[Len(trades)].entry_time < Candle_i.timestamp
    /\ current_trade = None

\* the equity of the last point of the curve run returned
FinalCurveEquity == result[1].equity_curve[Len(result[1].equity_curve)].equity

\* the last trade run returned was closed at the end of the data
ForcedCloseReturned ==
    /\ result[1].trades # <<>>
    /\ result[1].trades[Len(result[1].trades)].exit_reason = Some("End of data")

\* C27: after run, the equity of the last point of the equity curve is the initial
\* capital plus the net P&L of every trade of the returned list, a trade closed with
\* "End of data" included, and total_return is the return that sum stands for
C27_EquityComplete ==
    (Returned /\ result[1].equity_curve # <<>>) =>
        /\ FinalCurveEquity = INITIAL_CAPITAL + SumSeq(Pnls(result[1].trades))
        /\ result[1].metrics.total_return
               = RoundDiv(SumSeq(Pnls(result[1].trades)) * 10000, INITIAL_CAPITAL)

\* what the code does: the last point is recorded in the loop, before the trade left
\* open is closed, so it holds the P&L of the trades closed by a level only; the
\* running equity holds every trade's
C27_CurveOmitsForcedClose ==
    (Returned /\ result[1].equity_curve # <<>>) =>
        LET ts == result[1].trades
            by_level == SelectSeq(ts, LAMBDA t : t.exit_reason # Some("End of data"))
        IN /\ FinalCurveEquity = INITIAL_CAPITAL + SumSeq(Pnls(by_level))
           /\ equity = INITIAL_CAPITAL + SumSeq(Pnls(ts))
           /\ result[1].metrics.total_return
                  = RoundDiv((FinalCurveEquity - INITIAL_CAPITAL) * 10000, INITIAL_CAPITAL)

\* run returned a trade closed at the end of the data at a loss or a gain, and the
\* last point of the curve does not hold it
C27_ForcedCloseOmitted ==
    /\ Returned
    /\ ForcedCloseReturned
    /\ result[1].trades[Len(result[1].trades)].pnl[1] # 0
    /\ FinalCurveEquity # equity

-----------------------------------------------------------------------------
(* Specification of one call of StrategyEngine.generate_recommendation *)

InitStrategy ==
    /\ candles \in Series \cup ShortFrames
    /\ columns \in ColumnSets
    /\ bad_values \in BOOLEAN
    /\ pc = "strategy_call"
    /\ recommendation = None
    /\ RunIdle
    /\ GateIdle

GenerateRecommendation ==
    /\ pc = "strategy_call"
    /\ recommendation' = Some(generate_recommendation(candles, columns, bad_values))
    /\ pc' = "strategy_returned"
    /\ UNCHANGED <<inputVars, gateVars, runVars>>

NextStrategy == GenerateRecommendation

SpecStrategy == InitStrategy /\ [][NextStrategy]_vars

-----------------------------------------------------------------------------
(* Properties of generate_recommendation, checked under SpecStrategy *)

\* an undefined value among rsi, macd, ema_12, ema_26, sma_20, atr on the latest bar
LatestHasNaN ==
    LET latest == calculate_all_indicators(candles)
    IN \/ isna(latest.rsi) \/ isna(latest.macd) \/ isna(latest.ema_12)
       \/ isna(latest.ema_26) \/ isna(latest.sma_20) \/ isna(latest.atr)

FailsSoftCase ==
    \/ Len(candles) < 50
    \/ ~({"open", "high", "low", "close", "volume"} \subseteq columns)
    \/ bad_values
    \/ LatestHasNaN

\* C10: on fewer than 50 bars, a missing required column, a failure of the indicator
\* computation or an undefined critical indicator on the latest bar,
\* generate_recommendation returns HOLD with confidence 0 and a rationale
C10_FailsSoft ==
    (pc = "strategy_returned" /\ FailsSoftCase) =>
        /\ recommendation # None
        /\ recommendation[1].signal = "HOLD"
        /\ recommendation[1].confidence = 0
        /\ recommendation[1].rationale # <<>>
        /\ recommendation[1].stop_loss = None
        /\ recommendation[1].take_profit = None

\* 50 bars or more, every column, no failure, and the rsi of the latest bar undefined
C10_Witness ==
    /\ pc = "strategy_returned"
    /\ Len(candles) >= 50
    /\ columns = ALL_COLUMNS
    /\ ~bad_values
    /\ LatestHasNaN
    /\ recommendation[1].rationale
           = <<"Insufficient data for indicator calculation (NaN values)">>

\* the scores of the latest bar of the frame given to generate_recommendation
LatestBuyScore == buy_score(calculate_all_indicators(candles))
LatestSellScore == sell_score(calculate_all_indicators(candles))

\* C11: when the strategy decides, the signal is BUY exactly when the buy score is at
\* least 0.5 and above the sell score, with confidence min(buy score, 0.95); SELL
\* exactly when the sell score is at least 0.5 and above the buy score, with confidence
\* min(sell score, 0.95); otherwise HOLD with confidence max(buy score, sell score);
\* equal scores give HOLD (scores and confidence in hundredths)
C11_DecisionRule ==
    (pc = "strategy_returned" /\ ~FailsSoftCase) =>
        LET buy == LatestBuyScore
            sell == LatestSellScore
            r == recommendation[1]
        IN /\ r.signal \in {"BUY", "SELL", "HOLD"}
           /\ (r.signal = "BUY") <=> (buy >= 50 /\ buy > sell)
           /\ (r.signal = "SELL") <=> (sell >= 50 /\ sell > buy)
           /\ r.signal = "BUY" => r.confidence = (IF buy < 95 THEN buy ELSE 95)
           /\ r.signal = "SELL" => r.confidence = (IF sell < 95 THEN sell ELSE 95)
           /\ r.signal = "HOLD" => r.confidence = (IF buy > sell THEN buy ELSE sell)
           /\ buy = sell => r.signal = "HOLD"

\* the strategy decided on equal scores that both reach the threshold
C11_Witness ==
    /\ pc = "strategy_returned"
    /\ ~FailsSoftCase
    /\ LatestBuyScore = LatestSellScore
    /\ LatestBuyScore >= 50
    /\ recommendation[1].signal = "HOLD"

\* the strategy decided BUY with the confidence capped
C11_WitnessCapped ==
    /\ pc = "strategy_returned"
    /\ ~FailsSoftCase
    /\ LatestBuyScore > 95
    /\ recommendation[1].signal = "BUY"
    /\ recommendation[1].confidence = 95

\* the RSI of the latest bar is defined and lies in [40, 60], inside both RSI ranges
LatestRsiInBothRanges ==
    LET latest == calculate_all_indicators(candles)
    IN /\ ~isna(latest.rsi)
       /\ RsiGe(latest.rsi[1], 40)
       /\ RsiLe(latest.rsi[1], 60)

\* C29: each of the five scoring rules adds its weight to at most one of buy_score and
\* sell_score, an RSI in [40, 60] counting for buy only, so buy_score + sell_score is at
\* most 1.0 on every latest bar; every recommendation has a confidence in [0, 1] and
\* every BUY or SELL one in [0.5, 0.95] (scores and confidence in hundredths)
C29_ScoresBounded ==
    pc = "strategy_returned" =>
        /\ recommendation[1].confidence \in 0..100
        /\ recommendation[1].signal \in {"BUY", "SELL"} =>
               recommendation[1].confidence \in confidence_threshold..CONFIDENCE_CAP
        /\ ~FailsSoftCase =>
               LET latest == calculate_all_indicators(candles)
               IN /\ \A k \in 1..5 : Rules(latest)[k].buy = 0 \/ Rules(latest)[k].sell = 0
                  /\ LatestRsiInBothRanges =>
                         Rules(latest)[3].buy > 0 /\ Rules(latest)[3].sell = 0
                  /\ LatestBuyScore + LatestSellScore <= 100

\* the strategy decided on a bar whose RSI lies in both ranges, and the other four
\* rules scored as well: the two scores add up to 1.0
C29_Witness ==
    /\ pc = "strategy_returned"
    /\ ~FailsSoftCase
    /\ LatestRsiInBothRanges
    /\ LatestBuyScore + LatestSellScore = 100
    /\ LatestSellScore > 0

\* a SELL was returned with all five rules on the sell side, its confidence capped
C29_WitnessSell ==
    /\ pc = "strategy_returned"
    /\ ~FailsSoftCase
    /\ LatestSellScore = 100
    /\ recommendation[1].signal = "SELL"
    /\ recommendation[1].confidence = CONFIDENCE_CAP

\* C12: in every Recommendation returned by generate_recommendation, entry_price,
\* stop_loss and take_profit are all present when the signal is BUY or SELL and all
\* None when the signal is HOLD
C12_PricesIffSignal ==
    pc = "strategy_returned" =>
        LET r == recommendation[1]
        IN IF r.signal = "HOLD"
           THEN r.entry_price = None /\ r.stop_loss = None /\ r.take_profit = None
           ELSE r.entry_price # None /\ r.stop_loss # None /\ r.take_profit # None

\* the part of C12 that the code keeps: stop_loss and take_profit are present exactly
\* when the signal is BUY or SELL, and a BUY or SELL carries an entry_price
C12_StopsIffSignal ==
    pc = "strategy_returned" =>
        LET r == recommendation[1]
        IN /\ (r.stop_loss # None) <=> (r.signal # "HOLD")
           /\ (r.take_profit # None) <=> (r.signal # "HOLD")
           /\ r.signal # "HOLD" => r.entry_price # None

\* the strategy decided HOLD on a full frame and the Recommendation carries an entry_price
C12_HoldWithEntryPrice ==
    /\ pc = "strategy_returned"
    /\ ~FailsSoftCase
    /\ recommendation[1].signal = "HOLD"
    /\ recommendation[1].entry_price # None

-----------------------------------------------------------------------------
(* Specification of one direct call of BacktestEngine._calculate_metrics on *)
(* a list of closed trades and an equity curve, as the metrics tests call   *)
(* it.  A trade is its pnl (cents) and pnl_pct (hundredths of a percent);   *)
(* equity is in cents, a timestamp is a day number.                         *)

\* nw winning trades of pnl_pct wp followed by nl losing trades of pnl_pct lp
MetricTrades ==
    {[k \in 1..(nw + nl) |-> IF k <= nw THEN [pnl |-> Some(wp), pnl_pct |-> Some(wp)]
                                        ELSE [pnl |-> Some(lp), pnl_pct |-> Some(lp)]] :
        nw \in {0, 1, 18, 29, 30}, wp \in {90, 150},
        nl \in {0, 1, 12}, lp \in {-150, -100}}

\* equity curves: <<day, equity>> points spanning no day, half a year, a year and two
\* years, with one return or several, constant or varying returns, drawdowns below, at
\* and above the maximum, and one curve given out of order
MetricCurves ==
    LET Curve(points) ==
            [k \in 1..Len(points) |->
                [timestamp |-> isoformat(points[k][1]), equity |-> points[k][2]]]
    IN {Curve(points) : points \in {
            <<>>,
            <<<<0, 10000>>>>,
            <<<<0, 10000>>, <<0, 11000>>>>,
            <<<<0, 10000>>, <<180, 11000>>>>,
            <<<<180, 11000>>, <<0, 10000>>>>,
            <<<<0, 10000>>, <<365, 11000>>>>,
            <<<<0, 10000>>, <<366, 11000>>>>,
            <<<<0, 10000>>, <<730, 12000>>>>,
            <<<<0, 10000>>, <<1, 11000>>, <<2, 12100>>>>,
            <<<<0, 10000>>, <<1, 10000>>, <<2, 10000>>>>,
            <<<<0, 10000>>, <<200, 10500>>, <<400, 10400>>, <<800, 11000>>>>,
            <<<<0, 10000>>, <<1, 12000>>, <<2, 6000>>, <<3, 11000>>>>,
            <<<<0, 10000>>, <<1, 15000>>, <<2, 6000>>, <<3, 11000>>>>,
            <<<<0, 10000>>, <<1, 25000>>, <<2, 12499>>, <<3, 13000>>>>,
            <<<<0, 10000>>, <<1, 15000>>, <<2, 5000>>, <<3, 9000>>>>}}

InitMetrics ==
    /\ trades \in MetricTrades
    /\ equity_curve \in MetricCurves
    /\ pc = "metrics_call"
    /\ result = None
    /\ candles = <<>>
    /\ columns = ALL_COLUMNS
    /\ bad_values = FALSE
    /\ recommendation = None
    /\ sorted_candles = <<>>
    /\ i = 0
    /\ current_trade = None
    /\ equity = 0
    /\ run_no = 1
    /\ first_result = None
    /\ consults = 0
    /\ opened = 0
    /\ closed_on_bar = FALSE
    /\ consulted_at = None
    /\ GateIdle

\* metrics = backtest_engine._calculate_metrics(trades, equity_curve)
CalculateMetrics ==
    /\ pc = "metrics_call"
    /\ result' = Some(calculate_metrics(trades, equity_curve))
    /\ pc' = "metrics_returned"
    /\ UNCHANGED <<inputVars, gateVars, recommendation, sorted_candles, i, current_trade,
                   trades, equity, equity_curve, run_no, first_result, consults, opened,
                   closed_on_bar, consulted_at>>

SpecMetrics == InitMetrics /\ [][CalculateMetrics]_vars

-----------------------------------------------------------------------------
(* Properties of _calculate_metrics, checked under SpecMetrics *)

\* the call went past both early returns: some trade and at least two curve points
MetricsComputed ==
    /\ pc = "metrics_returned"
    /\ trades # <<>>
    /\ Len(equity_curve) >= 2

NoLosingTrades == \A k \in 1..Len(trades) : trades[k].pnl_pct[1] > 0
NoWinningTrades == \A k \in 1..Len(trades) : trades[k].pnl_pct[1] < 0

\* C13: the reported profit_factor is None when there are no losing trades, and 0.0
\* when there are no winning trades
C13_ProfitFactorEdges ==
    MetricsComputed =>
        /\ NoLosingTrades => result[1].profit_factor = None
        /\ NoWinningTrades => result[1].profit_factor = Some(Finite(0))

\* the half of C13 that the code keeps: 0.0 with no winning trades
C13_ZeroWithoutWinners ==
    (MetricsComputed /\ NoWinningTrades) => result[1].profit_factor = Some(Finite(0))

\* only winning trades went through the computation and a number was reported
C13_OnlyWinsReported ==
    /\ MetricsComputed
    /\ NoLosingTrades
    /\ result[1].profit_factor = Some(Finite(0))

\* days between the first and the last point of the sorted curve
SpanDays ==
    LET days == {to_datetime(equity_curve[k].timestamp) : k \in 1..Len(equity_curve)}
    IN (CHOOSE d \in days : \A e \in days : e <= d)
       - (CHOOSE d \in days : \A e \in days : d <= e)

\* years = days / 365.25 is below one
SubYear == SpanDays * 100 < 36525

\* the label that goes with the reported cagr, "" when the metrics carry none
CagrLabel == IF "cagr_label" \in DOMAIN result[1] THEN result[1].cagr_label ELSE ""

\* C14: when the curve spans less than one year the reported cagr equals total_return
\* and carries a label saying it is not annualized; when it spans at least one year
\* the cagr is ((final/initial)^(1/years) - 1)*100 and is labelled "Annualized"
C14_CagrBySpan ==
    MetricsComputed =>
        IF SubYear
        THEN /\ result[1].cagr = <<"value", result[1].total_return>>
             /\ CagrLabel \notin {"", "Annualized"}
        ELSE /\ result[1].cagr[1] = "(final/initial)^(365.25/days)-1"
             /\ CagrLabel = "Annualized"

\* what the code does instead: the cagr is total_return only when no day passes between
\* the first and the last point, and the annualised value as soon as one day passes
C14_AnnualizedOnAnySpan ==
    MetricsComputed =>
        /\ SpanDays = 0 => result[1].cagr = <<"value", result[1].total_return>>
        /\ SpanDays > 0 => result[1].cagr[1] = "(final/initial)^(365.25/days)-1"
        /\ CagrLabel = ""

\* a curve of 180 days whose cagr was annualised
C14_SubYearAnnualized ==
    /\ MetricsComputed
    /\ SpanDays = 180
    /\ result[1].cagr[1] = "(final/initial)^(365.25/days)-1"

\* the returns between consecutive points of the curve in time order
CurveReturns ==
    LET equity_df == SortCurve(equity_curve)
    IN Returns([k \in 1..Len(equity_df) |-> equity_df[k].equity])

ZeroVolatility == \A k \in 1..Len(CurveReturns) : CurveReturns[k] = CurveReturns[1]

\* the reason that goes with the reported sharpe_ratio, "" when the metrics carry none
SharpeReason == IF "sharpe_reason" \in DOMAIN result[1] THEN result[1].sharpe_reason ELSE ""

\* C15: with fewer than 2 return points sharpe_ratio is None with an
\* insufficient-return-points reason; with identical returns sharpe_ratio is None
\* with a "Zero volatility" reason; a number is reported only otherwise
C15_SharpeGuard ==
    MetricsComputed =>
        IF Len(CurveReturns) < 2
        THEN result[1].sharpe_ratio = None /\ SharpeReason = "Insufficient return points"
        ELSE IF ZeroVolatility
        THEN result[1].sharpe_ratio = None /\ SharpeReason = "Zero volatility"
        ELSE result[1].sharpe_ratio # None

\* what the code does instead: the number 0.0 in both guarded cases, and never a reason
C15_ZeroInsteadOfNone ==
    MetricsComputed =>
        /\ (Len(CurveReturns) < 2 \/ ZeroVolatility) <=> result[1].sharpe_ratio = <<"value", 0>>
        /\ result[1].sharpe_ratio # None
        /\ SharpeReason = ""

\* a curve of two points, one return, for which the number 0.0 was reported
C15_OneReturnReported ==
    /\ MetricsComputed
    /\ Len(CurveReturns) = 1
    /\ result[1].sharpe_ratio = <<"value", 0>>

\* a curve of three points with identical returns for which 0.0 was reported
C15_ZeroVolatilityReported ==
    /\ MetricsComputed
    /\ Len(CurveReturns) = 2
    /\ ZeroVolatility
    /\ result[1].sharpe_ratio = <<"value", 0>>

\* the four checks of the reliability verdict, on the inputs of the call
Winners == {k \in 1..Len(trades) : trades[k].pnl_pct[1] > 0}
Losers == {k \in 1..Len(trades) : trades[k].pnl_pct[1] < 0}
SumPct(ks) == SumSeq([k \in 1..Len(trades) |-> IF k \in ks THEN trades[k].pnl_pct[1] ELSE 0])

EnoughTrades == Len(trades) >= 30

\* average winning pnl_pct / average losing pnl_pct >= 1.0
\* (MIN_PROFIT_FACTOR, 0 for the average of no winners)
RatioAtLeastMin ==
    /\ Losers # {}
    /\ Winners # {}
    /\ SumPct(Winners) * Cardinality(Losers) >= (-SumPct(Losers)) * Cardinality(Winners)

\* the profit factor check as the claim states it: no losing trade (a null or infinite
\* profit factor) satisfies it
ProfitFactorSatisfied == Losers = {} \/ RatioAtLeastMin

CurveEquity == LET equity_df == SortCurve(equity_curve)
               IN [k \in 1..Len(equity_df) |-> equity_df[k].equity]

\* total_return > 0 (MIN_TOTAL_RETURN_PCT)
ReturnAboveMin == CurveEquity[Len(CurveEquity)] > CurveEquity[1]

\* max_drawdown <= 50 (MAX_DRAWDOWN_PCT): no point lies more than half below the
\* highest point before it
DrawdownWithinMax ==
    \A j \in 1..Len(CurveEquity) : \A k \in j..Len(CurveEquity) :
        (CurveEquity[j] - CurveEquity[k]) * 2 <= CurveEquity[j]

\* C16: for a non-empty trade list, is_reliable is true exactly when total_trades >=
\* MIN_TRADES_FOR_RELIABILITY and the profit factor >= MIN_PROFIT_FACTOR (a null or
\* infinite profit factor satisfies this) and total_return > MIN_TOTAL_RETURN_PCT and
\* max_drawdown <= MAX_DRAWDOWN_PCT
C16_ReliabilityVerdict ==
    MetricsComputed =>
        (result[1].is_reliable <=>
            (EnoughTrades /\ ProfitFactorSatisfied /\ ReturnAboveMin /\ DrawdownWithinMax))

\* what the code does: the same conjunction, with a list without losing trades failing
\* the profit factor check
C16_VerdictOnReportedZero ==
    MetricsComputed =>
        (result[1].is_reliable <=>
            (EnoughTrades /\ RatioAtLeastMin /\ ReturnAboveMin /\ DrawdownWithinMax))

\* thirty winning trades, no losing trade, a rising curve within the drawdown limit,
\* and the verdict is not reliable
C16_AllWinnersUnreliable ==
    /\ MetricsComputed
    /\ EnoughTrades /\ Losers = {} /\ ReturnAboveMin /\ DrawdownWithinMax
    /\ ~result[1].is_reliable

\* a reliable verdict is reached
C16_Reliable ==
    /\ MetricsComputed
    /\ result[1].is_reliable

\* one explanation for every failing check, in the order trade count, profit factor,
\* total return, max drawdown; profit_factor_passes is the profit factor check
Explanations(profit_factor_passes) ==
    (IF EnoughTrades THEN <<>> ELSE <<"Only n trades">>)
    \o (IF profit_factor_passes THEN <<>> ELSE <<"Profit factor < min">>)
    \o (IF ReturnAboveMin THEN <<>> ELSE <<"Total return <= min">>)
    \o (IF DrawdownWithinMax THEN <<>> ELSE <<"Max drawdown > max">>)

\* C17: whenever is_reliable is false for a non-empty trade list, reason lists one
\* explanation for every failing check (trade count, profit factor, total return, max
\* drawdown) and for no passing check, never only the first failure; reason is None
\* exactly when is_reliable is true
C17_ReasonComplete ==
    MetricsComputed =>
        /\ (result[1].reason = None) <=> result[1].is_reliable
        /\ ~result[1].is_reliable =>
               result[1].reason = Some(Explanations(ProfitFactorSatisfied))

\* what the code does: the same list, with a list without losing trades failing the
\* profit factor check
C17_CompleteOnReportedZero ==
    MetricsComputed =>
        /\ (result[1].reason = None) <=> result[1].is_reliable
        /\ ~result[1].is_reliable =>
               result[1].reason = Some(Explanations(RatioAtLeastMin))

\* the four checks fail and the reason names the four
C17_AllFourNamed ==
    /\ MetricsComputed
    /\ ~EnoughTrades /\ ~RatioAtLeastMin /\ Losers # {} /\ ~ReturnAboveMin /\ ~DrawdownWithinMax
    /\ Len(result[1].reason[1]) = 4

\* every check passes as the claim states them, the list has no losing trade, and the
\* reason explains the profit factor
C17_PassingCheckExplained ==
    /\ MetricsComputed
    /\ EnoughTrades /\ Losers = {} /\ ReturnAboveMin /\ DrawdownWithinMax
    /\ result[1].reason = Some(<<"Profit factor < min">>)

-----------------------------------------------------------------------------
(* Risk policy: app/core/policy.py *)

\* A Python str built by an f-string: the fixed text and the values formatted into it.
\* Values formatted with :.2f are hundredths, which is what the model computes in.
Str(text) == [text |-> text, actual |-> None, threshold |-> None]
Fmt(text, actual, threshold) ==
    [text |-> text, actual |-> Some(actual), threshold |-> Some(threshold)]

PolicyViolation(type, message, actual_value, threshold_value, metric_name) ==
    [type |-> type, message |-> message, actual_value |-> actual_value,
     threshold_value |-> threshold_value, metric_name |-> metric_name]

check_trades(total_trades) ==
    IF total_trades < MIN_TRADES_FOR_RELIABILITY
    THEN Some(PolicyViolation("insufficient_trades",
                              Fmt("Insuficientes trades: {} < {} minimo requerido",
                                  total_trades, MIN_TRADES_FOR_RELIABILITY),
                              Some(total_trades), Some(MIN_TRADES_FOR_RELIABILITY),
                              "total_trades"))
    ELSE None

check_window_days(days) ==
    IF days < MIN_DATA_WINDOW_DAYS
    THEN Some(PolicyViolation("insufficient_window",
                              Fmt("Ventana de datos insuficiente: {} dias < {} minimo requerido",
                                  days, MIN_DATA_WINDOW_DAYS),
                              Some(days), Some(MIN_DATA_WINDOW_DAYS), "window_days"))
    ELSE None

\* profit_factor == float('inf') or (isinstance(profit_factor, float) and profit_factor > 1e10)
IsUnbounded(x) == x.mag \in {"inf", "above_1e10"}

\* faulty variant: an absent profit factor is taken for an unbounded one
check_profit_factor_null_passes(profit_factor) ==
    IF profit_factor = None THEN None
    ELSE IF IsUnbounded(profit_factor[1]) THEN None
    ELSE IF profit_factor[1].v < MIN_PROFIT_FACTOR
    THEN Some(PolicyViolation("low_profit_factor",
                              Fmt("Profit factor insuficiente: {:.2f} < {} minimo requerido",
                                  profit_factor[1].v, MIN_PROFIT_FACTOR),
                              Some(profit_factor[1].v), Some(MIN_PROFIT_FACTOR),
                              "profit_factor"))
    ELSE None

check_profit_factor(profit_factor) ==
    IF profit_factor = None
    THEN Some(PolicyViolation("low_profit_factor", Str("Profit factor no disponible"),
                              None, Some(MIN_PROFIT_FACTOR), "profit_factor"))
    ELSE IF IsUnbounded(profit_factor[1]) THEN None
    ELSE IF profit_factor[1].v < MIN_PROFIT_FACTOR
    THEN Some(PolicyViolation("low_profit_factor",
                              Fmt("Profit factor insuficiente: {:.2f} < {} minimo requerido",
                                  profit_factor[1].v, MIN_PROFIT_FACTOR),
                              Some(profit_factor[1].v), Some(MIN_PROFIT_FACTOR),
                              "profit_factor"))
    ELSE None

check_total_return(total_return) ==
    IF total_return <= MIN_TOTAL_RETURN_PCT
    THEN Some(PolicyViolation("negative_return",
                              Fmt("Retorno total insuficiente: {:.2f}% <= {}% minimo requerido",
                                  total_return, MIN_TOTAL_RETURN_PCT),
                              Some(total_return), Some(MIN_TOTAL_RETURN_PCT), "total_return"))
    ELSE None

check_max_drawdown(max_drawdown) ==
    IF max_drawdown > MAX_DRAWDOWN_PCT
    THEN Some(PolicyViolation("high_drawdown",
                              Fmt("Drawdown maximo excedido: {:.2f}% > {}% maximo permitido",
                                  max_drawdown, MAX_DRAWDOWN_PCT),
                              Some(max_drawdown), Some(MAX_DRAWDOWN_PCT), "max_drawdown"))
    ELSE None

\* faulty variant: the evaluation stops at the first check that fails
evaluate_all_first_only(total_trades, days, profit_factor, total_return, max_drawdown) ==
    LET found == check_trades(total_trades)
                 \o (IF days # None THEN check_window_days(days[1]) ELSE <<>>)
                 \o check_profit_factor(profit_factor)
                 \o check_total_return(total_return)
                 \o check_max_drawdown(max_drawdown)
    IN IF found = <<>> THEN <<>> ELSE <<found[1]>>

\* violations = []; each check appends its violation, if any: an Optional is the
\* sequence of zero or one elements, so appending it is concatenation
evaluate_all(total_trades, days, profit_factor, total_return, max_drawdown) ==
    check_trades(total_trades)
    \o (IF days # None THEN check_window_days(days[1]) ELSE <<>>)
    \o check_profit_factor(profit_factor)
    \o check_total_return(total_return)
    \o check_max_drawdown(max_drawdown)

-----------------------------------------------------------------------------
(* Risk evaluation for a live signal: evaluate_risk_for_signal, imported from  *)
(* app.core.backtest by the endpoint and by the tests.                         *)

RiskEvaluation(is_blocked, block_reason, block_reasons, violations, is_stale, stale_reason) ==
    [is_blocked |-> is_blocked, block_reason |-> block_reason,
     block_reasons |-> block_reasons, violations |-> violations,
     is_stale |-> is_stale, stale_reason |-> stale_reason]

Messages(violations) == [k \in 1..Len(violations) |-> violations[k].message]

\* faulty variant: the metric checks run before the cache flags are looked at
evaluate_metrics_first(metrics, validation, cache, days) ==
    LET violations == IF metrics = None THEN <<>>
                      ELSE evaluate_all(metrics[1].total_trades, days,
                                        metrics[1].profit_factor, metrics[1].total_return,
                                        metrics[1].max_drawdown)
        stale == cache # None /\ cache[1].is_stale
    IN IF violations # <<>>
       THEN RiskEvaluation(TRUE, Some(violations[1].message), Messages(violations),
                           violations, stale,
                           IF stale THEN Some(cache[1].reason) ELSE None)
       ELSE IF stale
       THEN RiskEvaluation(TRUE, Some(cache[1].reason), <<cache[1].reason>>, <<>>, TRUE,
                           Some(cache[1].reason))
       ELSE IF cache # None /\ cache[1].is_inconsistent
       THEN RiskEvaluation(TRUE, Some(cache[1].reason), <<cache[1].reason>>, <<>>, FALSE,
                           None)
       ELSE IF metrics = None
       THEN RiskEvaluation(TRUE, Some(Str("No risk metrics available")),
                           <<Str("No risk metrics available")>>, <<>>, FALSE, None)
       ELSE RiskEvaluation(FALSE, None, <<>>, <<>>, FALSE, None)

evaluate_risk_for_signal(metrics, validation, cache, days) ==
    IF cache # None /\ cache[1].is_stale
    THEN RiskEvaluation(TRUE, Some(cache[1].reason), <<cache[1].reason>>, <<>>, TRUE,
                        Some(cache[1].reason))
    ELSE IF cache # None /\ cache[1].is_inconsistent
    THEN RiskEvaluation(TRUE, Some(cache[1].reason), <<cache[1].reason>>, <<>>, FALSE, None)
    ELSE IF metrics = None
    THEN RiskEvaluation(TRUE, Some(Str("No risk metrics available")),
                        <<Str("No risk metrics available")>>, <<>>, FALSE, None)
    ELSE LET violations == evaluate_all(metrics[1].total_trades, days,
                                        metrics[1].profit_factor, metrics[1].total_return,
                                        metrics[1].max_drawdown)
         IN RiskEvaluation(violations # <<>>,
                           IF violations # <<>> THEN Some(violations[1].message) ELSE None,
                           Messages(violations), violations, FALSE, None)

-----------------------------------------------------------------------------
(* Specification of the policy calls: RiskPolicy.evaluate_all with the values *)
(* of a metrics dict, and evaluate_risk_for_signal.                           *)

STALE_CANDLE_HOURS == 24

\* values below, at and above each threshold
RiskMetricsInputs ==
    [total_trades : {MIN_TRADES_FOR_RELIABILITY - 1, MIN_TRADES_FOR_RELIABILITY,
                     MIN_TRADES_FOR_RELIABILITY + 1},
     profit_factor : {None, Some(Infinity), Some(Above1e10)}
                     \cup {Some(Finite(MIN_PROFIT_FACTOR + d)) : d \in {-1, 0, 1}},
     total_return : {MIN_TOTAL_RETURN_PCT - 1, MIN_TOTAL_RETURN_PCT, MIN_TOTAL_RETURN_PCT + 1},
     max_drawdown : {MAX_DRAWDOWN_PCT - 1, MAX_DRAWDOWN_PCT, MAX_DRAWDOWN_PCT + 1}]

WindowDaysInputs ==
    {None} \cup {Some(MIN_DATA_WINDOW_DAYS + d) : d \in {-1, 0, 1}}

CacheValidation(is_stale, is_inconsistent, reason) ==
    [is_stale |-> is_stale, is_inconsistent |-> is_inconsistent, reason |-> reason]

\* the validation_info RiskRepository.load can return
CacheMissing == CacheValidation(FALSE, FALSE, Str("Risk file does not exist"))
CacheValid == CacheValidation(FALSE, FALSE, Str("Cache is valid"))
CacheHashMismatch == CacheValidation(FALSE, TRUE, Str("Hash mismatch: cached={} vs current={}"))
CacheStale ==
    CacheValidation(TRUE, FALSE, Fmt("Data is stale: {:.1f} hours old (max: {}h)",
                                     STALE_CANDLE_HOURS + 1, STALE_CANDLE_HOURS))
\* a caller's dict with both flags set
CacheStaleAndInconsistent == CacheValidation(TRUE, TRUE, CacheStale.reason)

CacheValidationInputs ==
    {None, Some(CacheMissing), Some(CacheValid), Some(CacheHashMismatch), Some(CacheStale),
     Some(CacheStaleAndInconsistent)}

RiskValidationInputs == {None, Some([is_reliable |-> TRUE])}

\* the engine and the strategy are not involved in a policy call or a request
EngineIdle ==
    /\ candles = <<>>
    /\ columns = {}
    /\ bad_values = FALSE
    /\ recommendation = None
    /\ RunIdle

InitPolicy ==
    /\ risk_metrics \in {None} \cup {Some(m) : m \in RiskMetricsInputs}
    /\ risk_validation \in RiskValidationInputs
    /\ cache_validation \in CacheValidationInputs
    /\ window_days \in WindowDaysInputs
    /\ policy_violations = None
    /\ risk_evaluation = None
    /\ request = None
    /\ response = None
    /\ snapshots = <<>>
    /\ errors = <<>>
    /\ pc = "policy_call"
    /\ EngineIdle

EvaluateAll ==
    /\ pc = "policy_call"
    /\ risk_metrics # None
    /\ policy_violations' = Some(evaluate_all(risk_metrics[1].total_trades, window_days,
                                              risk_metrics[1].profit_factor,
                                              risk_metrics[1].total_return,
                                              risk_metrics[1].max_drawdown))
    /\ pc' = "evaluate_all_returned"
    /\ UNCHANGED <<inputVars, runVars, recommendation, risk_metrics, risk_validation,
                   cache_validation, window_days, risk_evaluation, request, response,
                   snapshots, errors>>

EvaluateRiskForSignal ==
    /\ pc = "policy_call"
    /\ risk_evaluation' = Some(evaluate_risk_for_signal(risk_metrics, risk_validation,
                                                        cache_validation, window_days))
    /\ pc' = "risk_evaluated"
    /\ UNCHANGED <<inputVars, runVars, recommendation, risk_metrics, risk_validation,
                   cache_validation, window_days, policy_violations, request, response,
                   snapshots, errors>>

NextPolicy ==
    \/ EvaluateAll
    \/ EvaluateRiskForSignal

SpecPolicy == InitPolicy /\ [][NextPolicy]_vars

-----------------------------------------------------------------------------
(* Properties of the risk policy, checked under SpecPolicy *)

CHECK_ORDER ==
    <<"insufficient_trades", "insufficient_window", "low_profit_factor", "negative_return",
      "high_drawdown">>

\* the condition each kind of violation stands for, on the inputs of the call
ConditionHolds(type) ==
    LET m == risk_metrics[1]
    IN CASE type = "insufficient_trades" -> m.total_trades < MIN_TRADES_FOR_RELIABILITY
         [] type = "insufficient_window" ->
                window_days # None /\ window_days[1] < MIN_DATA_WINDOW_DAYS
         [] type = "low_profit_factor" ->
                \/ m.profit_factor = None
                \/ /\ m.profit_factor[1].mag = "finite"
                   /\ m.profit_factor[1].v < MIN_PROFIT_FACTOR
         [] type = "negative_return" -> m.total_return <= MIN_TOTAL_RETURN_PCT
         [] type = "high_drawdown" -> m.max_drawdown > MAX_DRAWDOWN_PCT

ExpectedTypes == SelectSeq(CHECK_ORDER, ConditionHolds)

Types(violations) == [k \in 1..Len(violations) |-> violations[k].type]

CacheIsStale == cache_validation # None /\ cache_validation[1].is_stale
CacheIsInconsistent == cache_validation # None /\ cache_validation[1].is_inconsistent
MetricChecksApply == ~CacheIsStale /\ ~CacheIsInconsistent /\ risk_metrics # None

\* C6: the metric policy evaluation returns exactly one violation per condition that
\* holds, in the order trades, window (only when window_days is given), profit factor,
\* return, drawdown, never stopping at the first; values at the trades, window and
\* drawdown thresholds do not violate; is_blocked is true iff the list is non-empty,
\* block_reason is the first violation's message and block_reasons lists every message
\* in that order
C6_AllViolationsInOrder ==
    /\ pc = "evaluate_all_returned" => Types(policy_violations[1]) = ExpectedTypes
    /\ (pc = "risk_evaluated" /\ MetricChecksApply) =>
           LET r == risk_evaluation[1]
           IN /\ Types(r.violations) = ExpectedTypes
              /\ r.is_blocked = (r.violations # <<>>)
              /\ r.block_reason = IF r.violations = <<>> THEN None
                                  ELSE Some(r.violations[1].message)
              /\ r.block_reasons = Messages(r.violations)

\* every condition holds at once and the evaluation reports all five
C6_Witness ==
    /\ pc = "risk_evaluated"
    /\ MetricChecksApply
    /\ ExpectedTypes = CHECK_ORDER
    /\ Len(risk_evaluation[1].block_reasons) = Len(CHECK_ORDER)
    /\ risk_evaluation[1].is_blocked

\* trades, window and drawdown exactly at their thresholds: nothing is reported
C6_WitnessAtThreshold ==
    /\ pc = "evaluate_all_returned"
    /\ risk_metrics[1].total_trades = MIN_TRADES_FOR_RELIABILITY
    /\ window_days = Some(MIN_DATA_WINDOW_DAYS)
    /\ risk_metrics[1].max_drawdown = MAX_DRAWDOWN_PCT
    /\ policy_violations = Some(<<>>)

\* the low_profit_factor violations of a list, in order
ProfitFactorViolations(violations) ==
    SelectSeq(violations, LAMBDA v : v.type = "low_profit_factor")

\* C25: the profit factor check of evaluate_all: a profit_factor of None gives one
\* low_profit_factor violation saying "no disponible" with actual_value None; infinity
\* or a value above 1e10 gives none; a finite value gives one iff it is strictly below
\* MIN_PROFIT_FACTOR, and it carries that value and the threshold
C25_ProfitFactorCheck ==
    pc = "evaluate_all_returned" =>
        LET pf == risk_metrics[1].profit_factor
            found == ProfitFactorViolations(policy_violations[1])
        IN /\ Len(found) <= 1
           /\ \A k \in 1..Len(found) :
                  /\ found[k].metric_name = "profit_factor"
                  /\ found[k].threshold_value = Some(MIN_PROFIT_FACTOR)
           /\ pf = None =>
                  /\ Len(found) = 1
                  /\ found[1].message = Str("Profit factor no disponible")
                  /\ found[1].actual_value = None
           /\ (pf # None /\ pf[1].mag \in {"inf", "above_1e10"}) => found = <<>>
           /\ (pf # None /\ pf[1].mag = "finite") =>
                  /\ found # <<>> <=> pf[1].v < MIN_PROFIT_FACTOR
                  /\ found # <<>> =>
                         /\ found[1].actual_value = Some(pf[1].v)
                         /\ found[1].message.actual = Some(pf[1].v)
                         /\ found[1].message.threshold = Some(MIN_PROFIT_FACTOR)

\* an absent profit factor was reported as the only violation
C25_Witness ==
    /\ pc = "evaluate_all_returned"
    /\ risk_metrics[1].profit_factor = None
    /\ Len(policy_violations[1]) = 1
    /\ policy_violations[1][1].actual_value = None

\* a profit factor above 1e10 passed, and one exactly at the minimum passed
C25_WitnessUnbounded ==
    /\ pc = "evaluate_all_returned"
    /\ risk_metrics[1].profit_factor \in {Some(Above1e10), Some(Finite(MIN_PROFIT_FACTOR))}
    /\ ProfitFactorViolations(policy_violations[1]) = <<>>
    /\ policy_violations[1] # <<>>

\* a profit factor just below the minimum was reported with its value
C25_WitnessBelow ==
    /\ pc = "evaluate_all_returned"
    /\ risk_metrics[1].profit_factor = Some(Finite(MIN_PROFIT_FACTOR - 1))
    /\ ProfitFactorViolations(policy_violations[1]) # <<>>

\* C5: evaluate_risk_for_signal looks at the cache flags first: a stale cache blocks
\* with is_stale true, the cache validation's reason as stale reason and no violations,
\* whatever the metrics; otherwise an inconsistent cache blocks with the cache
\* validation's reason; otherwise absent metrics block with "No risk metrics available";
\* the metric checks run only when none of these applies
C5_CacheChecksFirst ==
    pc = "risk_evaluated" =>
        LET r == risk_evaluation[1]
        IN IF CacheIsStale
           THEN /\ r.is_blocked
                /\ r.is_stale
                /\ r.stale_reason = Some(cache_validation[1].reason)
                /\ r.violations = <<>>
           ELSE IF CacheIsInconsistent
           THEN /\ r.is_blocked
                /\ r.block_reason = Some(cache_validation[1].reason)
                /\ r.violations = <<>>
           ELSE IF risk_metrics = None
           THEN /\ r.is_blocked
                /\ r.block_reason = Some(Str("No risk metrics available"))
                /\ r.violations = <<>>
           ELSE Types(r.violations) = ExpectedTypes

\* a stale cache together with metrics that break every threshold
C5_Witness ==
    /\ pc = "risk_evaluated"
    /\ CacheIsStale
    /\ risk_metrics # None
    /\ ExpectedTypes = CHECK_ORDER
    /\ risk_evaluation[1].is_blocked
    /\ risk_evaluation[1].is_stale
    /\ risk_evaluation[1].violations = <<>>

-----------------------------------------------------------------------------
(* GET /recommendation/today: app/api/recommendation.py *)
(*                                                                         *)
(* The response keeps the fields the gating decides: signal, confidence,   *)
(* prices, rationale and the blocking fields.  The metadata echoed from    *)
(* the candle file (as_of, hashes, data_window, backtest_period) is left   *)
(* out.  A key absent from the response dict reads as None.                *)

\* the names bound in the module's namespace by its imports and definitions
recommendation_module_names ==
    {"APIRouter", "HTTPException", "Optional", "pd", "settings", "StrategyEngine",
     "evaluate_risk_for_signal", "CandleRepository", "validate_data_window",
     "validate_gaps", "validate_data_quality", "RiskRepository", "datetime", "timedelta",
     "router", "get_today_recommendation"}

\* looking a global name up: an unbound name raises NameError
IsBound(name) == name \in recommendation_module_names

\* for daily candles a last candle older than this many hours gives no new signal
STALE_SIGNAL_HOURS == 36

HTTPException(status_code, status) ==
    [exc |-> "HTTPException", status_code |-> status_code, status |-> status]
Raised(exc) == [exc |-> exc, status_code |-> 0, status |-> ""]

\* an HTTP response: a JSON body with status 200, or an error
JsonResponse(body) == [status_code |-> 200, error |-> None, body |-> Some(body)]
ErrorResponse(status_code, status) ==
    [status_code |-> status_code, error |-> Some(status), body |-> None]

\* the except clauses of the handler, in order: FileNotFoundError, ValueError, Exception.
\* An HTTPException raised inside the try block is an Exception
except_clauses(e) ==
    IF e.exc = "FileNotFoundError" THEN ErrorResponse(503, "data_missing")
    ELSE IF e.exc = "ValueError" THEN ErrorResponse(422, "data_error")
    ELSE ErrorResponse(500, "error")

\* an exception no clause of the handler catches: the server answers 500
unhandled(e) == ErrorResponse(500, e.exc)

\* the blocking fields of a response
Gating(is_blocked, block_reason, block_reasons, violations, is_stale, stale_reason) ==
    [is_blocked |-> is_blocked, block_reason |-> block_reason,
     block_reasons |-> block_reasons, violations |-> violations, is_stale |-> is_stale,
     stale_reason |-> stale_reason]

\* a response without the blocking keys
NoGating == Gating(None, None, <<>>, <<>>, None, None)

ResponseBody(signal, confidence, entry_price, stop_loss, take_profit, rationale, gating) ==
    [signal |-> signal, confidence |-> confidence, entry_price |-> entry_price,
     stop_loss |-> stop_loss, take_profit |-> take_profit, rationale |-> rationale,
     is_blocked |-> gating.is_blocked, block_reason |-> gating.block_reason,
     block_reasons |-> gating.block_reasons, violations |-> gating.violations,
     is_stale |-> gating.is_stale, stale_reason |-> gating.stale_reason]

\* a or b on Optional[str]
OrElse(a, b) == IF a # None THEN a ELSE b

\* lines 80-100: no new signal from an old daily candle
stale_signal_response(req) ==
    JsonResponse(ResponseBody("HOLD", 0, None, None, None,
                              <<Fmt("No new signal available. Last candle is {:.1f} hours old",
                                    req.hours_old, STALE_SIGNAL_HOURS)>>,
                              Gating(None, None, <<>>, <<>>, None,
                                     Some(Fmt("Last candle is {:.1f} hours old",
                                              req.hours_old, STALE_SIGNAL_HOURS)))))

\* lines 121-214: the blocked response
blocked_response(evaluation) ==
    LET block_reason == OrElse(evaluation.block_reason,
                               OrElse(evaluation.stale_reason,
                                      Some(Str("Signal blocked due to risk evaluation"))))
        block_reasons == IF evaluation.block_reasons # <<>> THEN evaluation.block_reasons
                         ELSE <<block_reason[1]>>
        rationale_parts == <<block_reason[1]>>
                           \o (IF Len(block_reasons) > 1 THEN Tail(block_reasons) ELSE <<>>)
                           \o Messages(evaluation.violations)
    IN JsonResponse(ResponseBody("HOLD", 0, None, None, None, rationale_parts,
                                 Gating(Some(TRUE), block_reason, block_reasons,
                                        evaluation.violations, Some(evaluation.is_stale),
                                        evaluation.stale_reason)))

\* lines 217-269: recommendation.to_dict() and the metadata
signal_response(rec) ==
    JsonResponse(ResponseBody(rec.signal, rec.confidence, rec.entry_price, rec.stop_loss,
                              rec.take_profit, rec.rationale, NoGating))

\* does the request get as far as the risk evaluation of line 113
ReachesEvaluation(req) ==
    /\ req.candles = "ok"
    /\ ~(req.interval = "1d" /\ req.hours_old > STALE_SIGNAL_HOURS)
    /\ req.risk_file = "readable"

\* lines 35-298: the try block and its except clauses
try_block(req, rows, metrics, validation, cache, days) ==
    IF req.candles = "missing" THEN except_clauses(Raised("FileNotFoundError"))
    ELSE IF req.candles = "short_window"
    THEN except_clauses(HTTPException(503, "INSUFFICIENT_DATA"))
    ELSE IF req.candles = "gaps" THEN except_clauses(HTTPException(503, "DATA_GAPS"))
    ELSE IF req.interval = "1d" /\ req.hours_old > STALE_SIGNAL_HOURS
    THEN stale_signal_response(req)
    ELSE IF req.risk_file = "unreadable" THEN except_clauses(Raised("ValueError"))
    ELSE LET evaluation == evaluate_risk_for_signal(metrics, validation, cache, days)
         IN IF evaluation.is_blocked \/ evaluation.is_stale
            THEN blocked_response(evaluation)
            ELSE signal_response(generate_recommendation(rows, ALL_COLUMNS, FALSE))

\* lines 28-298: the repositories are constructed before the try block
get_today_recommendation(req, rows, metrics, validation, cache, days) ==
    IF ~IsBound("CandleRepository") THEN unhandled(Raised("NameError"))
    ELSE IF ~IsBound("BacktestRepository") THEN unhandled(Raised("NameError"))
    ELSE IF ~IsBound("StrategyEngine") THEN unhandled(Raised("NameError"))
    ELSE try_block(req, rows, metrics, validation, cache, days)

-----------------------------------------------------------------------------
(* Specification of one request to the endpoint *)

\* what the candle repository and the validators find, and the age of the last candle
RequestInputs ==
    [candles : {"ok", "missing", "short_window", "gaps"},
     interval : {"1d", "4h"},
     hours_old : {STALE_SIGNAL_HOURS, STALE_SIGNAL_HOURS + 1},
     risk_file : {"readable", "unreadable"}]

\* metrics that pass every check, and metrics that fail one or all of them
EndpointMetrics ==
    {m \in RiskMetricsInputs :
        /\ m.total_trades # MIN_TRADES_FOR_RELIABILITY
        /\ m.profit_factor \in {None, Some(Finite(MIN_PROFIT_FACTOR + 1))}
        /\ m.total_return # MIN_TOTAL_RETURN_PCT
        /\ m.max_drawdown # MAX_DRAWDOWN_PCT}

\* what RiskRepository.load returns: (data, validation_info), data only from a valid cache
RiskLoads ==
    {<<None, None, c>> : c \in {CacheMissing, CacheHashMismatch, CacheStale}}
    \cup {<<Some(m), Some([is_reliable |-> TRUE]), CacheValid>> : m \in EndpointMetrics}

EndpointFrames == {Extend(WarmUp(r), <<"up">>) : r \in Regimes}

InitEndpoint ==
    /\ request \in {Some(r) : r \in RequestInputs}
    /\ candles \in EndpointFrames
    /\ columns = ALL_COLUMNS
    /\ bad_values = FALSE
    /\ \E load \in RiskLoads :
          /\ risk_metrics = load[1]
          /\ risk_validation = load[2]
          /\ cache_validation = Some(load[3])
    /\ window_days \in {None, Some(MIN_DATA_WINDOW_DAYS)}
    /\ policy_violations = None
    /\ risk_evaluation = None
    /\ response = None
    /\ snapshots = <<>>
    /\ errors = <<>>
    /\ recommendation = None
    /\ pc = "request"
    /\ RunIdle

GetTodayRecommendation ==
    /\ pc = "request"
    /\ response' = Some(get_today_recommendation(request[1], candles, risk_metrics,
                                                 risk_validation, cache_validation,
                                                 window_days))
    /\ pc' = "responded"
    /\ UNCHANGED <<inputVars, runVars, recommendation, risk_metrics, risk_validation,
                   cache_validation, window_days, policy_violations, risk_evaluation,
                   request, snapshots, errors>>

NextEndpoint == GetTodayRecommendation

SpecEndpoint == InitEndpoint /\ [][NextEndpoint]_vars

-----------------------------------------------------------------------------
(* Properties of the endpoint, checked under SpecEndpoint *)

\* the risk evaluation of the request's cached risk data
RequestEvaluation ==
    evaluate_risk_for_signal(risk_metrics, risk_validation, cache_validation, window_days)

GatedOut == RequestEvaluation.is_blocked \/ RequestEvaluation.is_stale

\* C4: the endpoint surfaces BUY or SELL only if the risk evaluation is neither blocked
\* nor stale; whenever the evaluation of a request is blocked or stale the response is
\* a normal result with signal HOLD, confidence 0, null entry_price, stop_loss and
\* take_profit, and is_blocked true
C4_GatedSignal ==
    pc = "responded" =>
        /\ (response[1].body # None /\ response[1].body[1].signal \in {"BUY", "SELL"})
               => ~GatedOut
        /\ (ReachesEvaluation(request[1]) /\ GatedOut) =>
               /\ response[1].status_code = 200
               /\ response[1].body # None
               /\ response[1].body[1].signal = "HOLD"
               /\ response[1].body[1].confidence = 0
               /\ response[1].body[1].entry_price = None
               /\ response[1].body[1].stop_loss = None
               /\ response[1].body[1].take_profit = None
               /\ response[1].body[1].is_blocked = Some(TRUE)

-----------------------------------------------------------------------------
(* POST /refresh: refresh_data ingests the candles, then takes the four     *)
(* snapshots one after the other and answers.  The recommendation snapshot  *)
(* is a call of get_today_recommendation; whether get_latest_backtest,      *)
(* get_candles and get_risk_metrics raise is given by the request.          *)

\* the order of the four try blocks
SNAPSHOT_ORDER == <<"recommendation", "backtest", "candles", "risk">>

\* faulty variant: any failed snapshot fails the refresh
refresh_response_any_error(taken, failed) ==
    IF failed # <<>> THEN ErrorResponse(503, "snapshots_failed")
    ELSE JsonResponse([snapshots |-> taken,
                       errors |-> IF failed # <<>> THEN Some(failed) ELSE None])

\* the answer once the four snapshots were attempted: 503 when every one failed
refresh_response(taken, failed) ==
    IF Len(failed) = Len(taken) THEN ErrorResponse(503, "snapshots_failed")
    ELSE JsonResponse([snapshots |-> taken,
                       errors |-> IF failed # <<>> THEN Some(failed) ELSE None])

InitRefresh ==
    /\ request \in {Some([success |-> ok, today |-> r, raises |-> f]) :
                        ok \in BOOLEAN, r \in RequestInputs,
                        f \in SUBSET {"backtest", "candles", "risk"}}
    /\ candles = Extend(WarmUp("up"), <<"up">>)
    /\ columns = ALL_COLUMNS
    /\ bad_values = FALSE
    /\ risk_metrics = None
    /\ risk_validation = None
    /\ cache_validation = Some(CacheHashMismatch)
    /\ window_days = Some(MIN_DATA_WINDOW_DAYS)
    /\ policy_violations = None
    /\ risk_evaluation = None
    /\ response = None
    /\ snapshots = <<>>
    /\ errors = <<>>
    /\ recommendation = None
    /\ pc = "refresh_request"
    /\ RunIdle

\* refresh_result = worker.refresh(symbol, interval) and the check of its success
Ingest ==
    /\ pc = "refresh_request"
    /\ IF request[1].success
       THEN /\ snapshots' = <<>>
            /\ errors' = <<>>
            /\ pc' = "refresh_snapshots"
            /\ UNCHANGED response
       ELSE /\ response' = Some(ErrorResponse(503, "refresh_failed"))
            /\ pc' = "refresh_responded"
            /\ UNCHANGED <<snapshots, errors>>
    /\ UNCHANGED <<inputVars, runVars, recommendation, risk_metrics, risk_validation,
                   cache_validation, window_days, policy_violations, risk_evaluation,
                   request>>

\* the next try block: the snapshot, or None and an entry in errors when the call raises
Snapshot ==
    /\ pc = "refresh_snapshots"
    /\ Len(snapshots) < Len(SNAPSHOT_ORDER)
    /\ LET name == SNAPSHOT_ORDER[Len(snapshots) + 1]
           today == get_today_recommendation(request[1].today, candles, risk_metrics,
                                             risk_validation, cache_validation, window_days)
           raises == IF name = "recommendation" THEN today.error # None
                     ELSE name \in request[1].raises
       IN IF raises
          THEN /\ errors' = Append(errors, name)
               /\ snapshots' = Append(snapshots, <<name, None>>)
          ELSE /\ snapshots' = Append(snapshots, <<name, Some(name)>>)
               /\ UNCHANGED errors
    /\ UNCHANGED <<inputVars, runVars, pc, recommendation, risk_metrics, risk_validation,
                   cache_validation, window_days, policy_violations, risk_evaluation,
                   request, response>>

\* after the fourth try block: the 503 of a refresh without snapshots, or the result
Respond ==
    /\ pc = "refresh_snapshots"
    /\ Len(snapshots) = Len(SNAPSHOT_ORDER)
    /\ response' = Some(refresh_response(snapshots, errors))
    /\ pc' = "refresh_responded"
    /\ UNCHANGED <<inputVars, runVars, recommendation, risk_metrics, risk_validation,
                   cache_validation, window_days, policy_violations, risk_evaluation,
                   request, snapshots, errors>>

SpecRefresh == InitRefresh /\ [][Ingest \/ Snapshot \/ Respond]_vars

-----------------------------------------------------------------------------
(* Properties of refresh_data, checked under SpecRefresh *)

SnapshotNames == {"recommendation", "backtest", "candles", "risk"}

\* the snapshots that the request makes fail: the recommendation whenever
\* get_today_recommendation does not answer 200, the others as the request says
Failing ==
    {n \in SnapshotNames :
        IF n = "recommendation"
        THEN get_today_recommendation(request[1].today, candles, risk_metrics, risk_validation,
                                      cache_validation, window_days).status_code # 200
        ELSE n \in request[1].raises}

Attempted == {snapshots[k][1] : k \in 1..Len(snapshots)}
Named == {errors[k] : k \in 1..Len(errors)}

\* C18: after a successful ingestion the four snapshots are attempted whatever failed
\* before; the response is the error 503 snapshots_failed exactly when the four fail;
\* otherwise it is a success in which every failed snapshot is null and named in
\* errors and every other snapshot is present
C18_PartialFailure ==
    (pc = "refresh_responded" /\ request[1].success) =>
        /\ Attempted = SnapshotNames
        /\ Len(snapshots) = 4
        /\ (response[1].status_code = 503 /\ response[1].error = Some("snapshots_failed"))
               <=> Failing = SnapshotNames
        /\ Failing # SnapshotNames =>
               /\ response[1].status_code = 200
               /\ LET body == response[1].body[1]
                  IN /\ \A k \in 1..4 :
                            (body.snapshots[k][2] = None) <=> (body.snapshots[k][1] \in Failing)
                     /\ {body.snapshots[k][1] : k \in 1..4} = SnapshotNames
                     /\ IF Failing = {} THEN body.errors = None
                        ELSE /\ body.errors # None
                             /\ {body.errors[1][k] : k \in 1..Len(body.errors[1])} = Failing

\* a refresh that answered 200 although the first and the last snapshot had failed
C18_Witness ==
    /\ pc = "refresh_responded"
    /\ request[1].success
    /\ Failing = {"recommendation", "risk"}
    /\ response[1].status_code = 200
    /\ response[1].body[1].snapshots[2][2] # None

\* a refresh whose four snapshots failed
C18_WitnessAllFailed ==
    /\ pc = "refresh_responded"
    /\ request[1].success
    /\ Failing = SnapshotNames
    /\ response[1].status_code = 503

\* C19: within one refresh the recommendation snapshot is taken after the backtest was
\* recomputed and the risk metrics refreshed (refresh -> backtest -> risk ->
\* recommendation)
C19_RecommendationAfterRisk ==
    "recommendation" \in Attempted => {"backtest", "risk"} \subseteq Attempted

\* what the code does: the recommendation is the first snapshot taken, before the
\* backtest and the risk metrics
C19_RecommendationFirst ==
    snapshots # <<>> => snapshots[1][1] = "recommendation"

\* the recommendation snapshot was taken and neither the backtest nor the risk
\* metrics were yet
C19_RecommendationBeforeBacktest ==
    /\ pc = "refresh_snapshots"
    /\ Attempted = {"recommendation"}

-----------------------------------------------------------------------------
(* The repositories.  BacktestRepository and RiskRepository: a cache file is    *)
(* "absent", "corrupt" (not JSON), or an "entry" with the hash and the as_of   *)
(* of the candles it was computed from, the age of that as_of in hours (None   *)
(* when the as_of does not parse), the hours since saved_at and, in the risk   *)
(* repository, the validation block.  CandleRepository: the Parquet file is    *)
(* sorted_candles, result is the metadata the last call returned and           *)
(* first_result what the call before it returned.                              *)

Loaded(data, validation_info) ==
    [raised |-> None, data |-> data, validation_info |-> validation_info]

\* faulty variant: an entry whose as_of matches is served without comparing the hashes
RiskRepository_load_as_of_only(file, candles_hash, candles_as_of) ==
    IF file.state = "absent" THEN Loaded(None, CacheMissing)
    ELSE IF file.state = "corrupt"
    THEN [raised |-> Some("ValueError"), data |-> None, validation_info |-> None]
    ELSE IF candles_as_of # None /\ file.as_of # None /\ file.as_of # candles_as_of
    THEN Loaded(None, CacheValidation(FALSE, TRUE,
                                      Str("Timestamp mismatch: cached={} vs current={}")))
    ELSE IF /\ candles_as_of # None /\ file.as_of # None /\ file.hours_old # None
            /\ file.hours_old[1] > STALE_CANDLE_HOURS
    THEN Loaded(None, CacheStale)
    ELSE IF candles_hash # None /\ file.hash # None /\ file.hash # candles_hash
            /\ (candles_as_of = None \/ file.as_of = None)
    THEN Loaded(None, CacheHashMismatch)
    ELSE Loaded(Some(file), CacheValid)

\* faulty variant: the age of the entry is taken from saved_at
RiskRepository_load_saved_at(file, candles_hash, candles_as_of) ==
    IF file.state = "absent" THEN Loaded(None, CacheMissing)
    ELSE IF file.state = "corrupt"
    THEN [raised |-> Some("ValueError"), data |-> None, validation_info |-> None]
    ELSE IF candles_hash # None /\ file.hash # None /\ file.hash # candles_hash
    THEN Loaded(None, CacheHashMismatch)
    ELSE IF candles_as_of # None /\ file.as_of # None /\ file.as_of # candles_as_of
    THEN Loaded(None, CacheValidation(FALSE, TRUE,
                                      Str("Timestamp mismatch: cached={} vs current={}")))
    ELSE IF /\ candles_as_of # None /\ file.as_of # None
            /\ file.saved_hours_ago > STALE_CANDLE_HOURS
    THEN Loaded(None, CacheStale)
    ELSE Loaded(Some(file), CacheValid)

\* RiskRepository.load(symbol, interval, candles_hash, candles_as_of)
RiskRepository_load(file, candles_hash, candles_as_of) ==
    IF file.state = "absent" THEN Loaded(None, CacheMissing)
    ELSE IF file.state = "corrupt"
    THEN [raised |-> Some("ValueError"), data |-> None, validation_info |-> None]
    ELSE IF candles_hash # None /\ file.hash # None /\ file.hash # candles_hash
    THEN Loaded(None, CacheHashMismatch)
    ELSE IF candles_as_of # None /\ file.as_of # None /\ file.as_of # candles_as_of
    THEN Loaded(None, CacheValidation(FALSE, TRUE,
                                      Str("Timestamp mismatch: cached={} vs current={}")))
    ELSE IF /\ candles_as_of # None /\ file.as_of # None /\ file.hours_old # None
            /\ file.hours_old[1] > STALE_CANDLE_HOURS
    THEN Loaded(None, CacheStale)
    ELSE Loaded(Some(file), CacheValid)

\* BacktestRepository.load(symbol, interval, candles_hash, candles_as_of)
BacktestRepository_load(file, candles_hash, candles_as_of) ==
    IF file.state = "absent"
    THEN Loaded(None, CacheValidation(FALSE, FALSE, Str("Backtest file does not exist")))
    ELSE IF file.state = "corrupt"
    THEN Loaded(None, CacheValidation(FALSE, FALSE, Str("File is corrupt: {}")))
    ELSE IF candles_hash # None /\ file.hash # None /\ file.hash # candles_hash
    THEN Loaded(None, CacheHashMismatch)
    ELSE IF candles_as_of # None /\ file.as_of # None /\ file.as_of # candles_as_of
    THEN Loaded(None, CacheValidation(FALSE, TRUE,
                                      Str("Timestamp mismatch: cached={} vs current={}")))
    ELSE IF /\ candles_as_of # None /\ file.as_of # None /\ file.hours_old # None
            /\ file.hours_old[1] > STALE_CANDLE_HOURS
    THEN Loaded(None, CacheStale)
    ELSE Loaded(Some(file), CacheValid)

MIN_WINDOW_DAYS == 90

\* RiskRepository.save(symbol, interval, metrics, trade_count, window_days, candles_hash,
\* candles_as_of): the entry written; is_reliable stands for metrics.get("is_reliable"),
\* None when the dict lacks the key, and hours_old for the age of candles_as_of
RiskRepository_save(is_reliable, trade_count, days, candles_hash, candles_as_of, hours_old) ==
    [state |-> "entry",
     hash |-> candles_hash,
     as_of |-> candles_as_of,
     hours_old |-> hours_old,
     saved_hours_ago |-> 0,
     validation |-> Some([trade_count |-> trade_count,
                          window_days |-> days,
                          min_trades_required |-> MIN_TRADES_FOR_RELIABILITY,
                          min_window_days |-> MIN_WINDOW_DAYS,
                          is_reliable |-> IF is_reliable = None THEN FALSE
                                          ELSE is_reliable[1]])]

MaxCalls == 3

\* Either the JSON caches: a call of load on the file found, or a call of save followed
\* by a call of load with the same candles_hash and candles_as_of; candles_hours_old is
\* the age of the caller's candles_as_of (None when there is none or it does not parse),
\* which is the entry's age when the entry carries the same as_of.  Or the candle file:
\* up to MaxCalls calls of CandleRepository.save and load, no file to begin with; the
\* first save is handed candles and a later one then_save, and the process is restarted
\* before call restart_before (0: never).
InitLoad ==
    /\ \/ /\ request \in
                {Some([repo |-> repo, file |-> file, candles_hash |-> h, candles_as_of |-> a,
                       candles_hours_old |-> age, is_reliable |-> rel, window_days |-> days]) :
                    repo \in {"backtest", "risk"},
                    file \in [state : {"absent", "corrupt"}, hash : {None}, as_of : {None},
                              hours_old : {None}, saved_hours_ago : {0}, validation : {None}]
                             \cup [state : {"entry"},
                                   hash : {None, Some("h1"), Some("h2")},
                                   as_of : {None, Some("t1"), Some("t2")},
                                   hours_old : {None, Some(STALE_CANDLE_HOURS),
                                                Some(STALE_CANDLE_HOURS + 1)},
                                   saved_hours_ago : {0, STALE_CANDLE_HOURS + 1},
                                   validation : {None}],
                    h \in {None, Some("h1"), Some("h2")},
                    a \in {None, Some("t1"), Some("t2")},
                    age \in {None, Some(STALE_CANDLE_HOURS), Some(STALE_CANDLE_HOURS + 1)},
                    rel \in {None, Some(FALSE), Some(TRUE)},
                    days \in {MIN_DATA_WINDOW_DAYS - 1, MIN_DATA_WINDOW_DAYS}}
          /\ request[1].candles_as_of = None => request[1].candles_hours_old = None
          /\ request[1].file.as_of = None => request[1].file.hours_old = None
          /\ (/\ request[1].candles_as_of # None
              /\ request[1].file.as_of = request[1].candles_as_of)
                 => request[1].file.hours_old = request[1].candles_hours_old
          /\ pc = "load_call"
          /\ candles = <<>>
          /\ columns = ALL_COLUMNS
       \/ LET two_days == <<Candle(1, 10000, 10100, 9900, 10000),
                            Candle(2, 10000, 10100, 9900, 10000)>>
              reversed == <<two_days[2], two_days[1]>>
              other_close == <<two_days[1], Candle(2, 10000, 10100, 9900, 10050)>>
              other_first_day == <<Candle(0, 10000, 10100, 9900, 10000), two_days[2]>>
              a_day_later == <<Candle(2, 10000, 10100, 9900, 10000),
                               Candle(3, 10000, 10100, 9900, 10000)>>
          IN /\ candles \in {two_days, reversed, <<>>}
             /\ request \in
                    {Some([then_save |-> f, restart_before |-> k]) :
                        f \in {two_days, reversed, other_close, other_first_day,
                               a_day_later, <<>>},
                        k \in {0} \cup 2..MaxCalls}
             /\ columns \in {ALL_COLUMNS, ALL_COLUMNS \ {"volume"}}
             /\ pc = "candles_call"
    /\ response = None
    /\ bad_values = FALSE
    /\ recommendation = None
    /\ risk_metrics = None
    /\ risk_validation = None
    /\ cache_validation = None
    /\ window_days = None
    /\ policy_violations = None
    /\ risk_evaluation = None
    /\ snapshots = <<>>
    /\ errors = <<>>
    /\ RunIdle

\* CandleRepository.save(symbol, interval, candles): the file holds the sorted frame;
\* the hash is Python's hash() of str(latest_timestamp) + str(row_count), which is
\* salted per process
SaveCandles ==
    /\ pc = "candles_call"
    /\ run_no <= MaxCalls
    /\ LET frame == IF run_no = 1 THEN candles ELSE request[1].then_save
           salt == IF request[1].restart_before # 0 /\ run_no >= request[1].restart_before
                   THEN 1 ELSE 0
           sorted == sort_values(frame)
           latest_timestamp == sorted[Len(sorted)].timestamp
           row_count == Len(sorted)
       IN IF frame = <<>> \/ missing_cols(columns) # {}
          THEN /\ result' = Some([raised |-> Some("ValueError"), as_of |-> None, rows |-> 0,
                                   source_file_hash |-> None, exists |-> None])
               /\ UNCHANGED sorted_candles
          ELSE /\ sorted_candles' = sorted
               /\ result' = Some([raised |-> None,
                                   as_of |-> Some(isoformat(latest_timestamp)),
                                   rows |-> row_count,
                                   source_file_hash |->
                                       Some(<<"hash", salt, latest_timestamp, row_count>>),
                                   exists |-> None])
    /\ first_result' = result
    /\ run_no' = run_no + 1
    /\ UNCHANGED <<inputVars, gateVars, pc, recommendation, i, current_trade, trades, equity,
                   equity_curve, consults, opened, closed_on_bar, consulted_at>>

\* CandleRepository.load(symbol, interval): the metadata of the file, "exists" included
LoadCandles ==
    /\ pc = "candles_call"
    /\ run_no <= MaxCalls
    /\ LET salt == IF request[1].restart_before # 0 /\ run_no >= request[1].restart_before
                   THEN 1 ELSE 0
           sorted == sort_values(sorted_candles)
           latest_timestamp == sorted[Len(sorted)].timestamp
           row_count == Len(sorted)
       IN result' = IF sorted_candles = <<>>
                    THEN Some([raised |-> Some("FileNotFoundError"), as_of |-> None,
                               rows |-> 0, source_file_hash |-> None, exists |-> None])
                    ELSE Some([raised |-> None,
                               as_of |-> Some(isoformat(latest_timestamp)),
                               rows |-> row_count,
                               source_file_hash |->
                                   Some(<<"hash", salt, latest_timestamp, row_count>>),
                               exists |-> Some(TRUE)])
    /\ first_result' = result
    /\ run_no' = run_no + 1
    /\ UNCHANGED <<inputVars, gateVars, pc, recommendation, sorted_candles, i, current_trade,
                   trades, equity, equity_curve, consults, opened, closed_on_bar,
                   consulted_at>>

\* one call of save with the caller's candles_hash and candles_as_of: the file is
\* overwritten, saved_at is now; BacktestRepository.save stores no validation block
Save ==
    /\ pc = "load_call"
    /\ LET r == request[1]
           entry == RiskRepository_save(r.is_reliable, MIN_TRADES_FOR_RELIABILITY,
                                        r.window_days, r.candles_hash, r.candles_as_of,
                                        r.candles_hours_old)
       IN request' = Some([r EXCEPT !.file = IF r.repo = "risk" THEN entry
                                             ELSE [entry EXCEPT !.validation = None]])
    /\ pc' = "saved"
    /\ UNCHANGED <<inputVars, runVars, recommendation, risk_metrics, risk_validation,
                   cache_validation, window_days, policy_violations, risk_evaluation,
                   response, snapshots, errors>>

\* one call of load; BacktestRepository.load deletes a corrupt file
Load ==
    /\ pc \in {"load_call", "saved"}
    /\ LET r == request[1]
       IN /\ response' = Some(IF r.repo = "risk"
                              THEN RiskRepository_load(r.file, r.candles_hash, r.candles_as_of)
                              ELSE BacktestRepository_load(r.file, r.candles_hash,
                                                           r.candles_as_of))
          /\ request' = IF r.repo = "backtest" /\ r.file.state = "corrupt"
                        THEN Some([r EXCEPT !.file.state = "absent"])
                        ELSE request
    /\ pc' = IF pc = "saved" THEN "saved_loaded" ELSE "loaded"
    /\ UNCHANGED <<inputVars, runVars, recommendation, risk_metrics, risk_validation,
                   cache_validation, window_days, policy_violations, risk_evaluation,
                   snapshots, errors>>

SpecLoad == InitLoad /\ [][Save \/ Load \/ SaveCandles \/ LoadCandles]_vars

-----------------------------------------------------------------------------
(* Properties of the two load functions, checked under SpecLoad *)

\* a call of load has returned
LoadReturned == pc \in {"loaded", "saved_loaded"}

\* the file is an entry stored with a hash, the caller gives a hash, and the two differ
HashesDiffer ==
    /\ request[1].file.state = "entry"
    /\ request[1].file.hash # None
    /\ request[1].candles_hash # None
    /\ request[1].file.hash # request[1].candles_hash

\* C20: load returns cached data only when the validation reports neither is_stale
\* nor is_inconsistent; when the caller's candles hash differs from the hash stored
\* with the entry (the caller gives one and the entry has one), load returns no data,
\* is_inconsistent true and a "Hash mismatch" reason
C20_ValidOnLoad ==
    LoadReturned =>
        /\ response[1].data # None =>
               /\ response[1].raised = None
               /\ ~response[1].validation_info.is_stale
               /\ ~response[1].validation_info.is_inconsistent
               /\ response[1].data = Some(request[1].file)
        /\ HashesDiffer =>
               /\ response[1].raised = None
               /\ response[1].data = None
               /\ response[1].validation_info.is_inconsistent
               /\ response[1].validation_info.reason.text
                      = "Hash mismatch: cached={} vs current={}"

\* an entry stored for other candles, with the as_of asked for and not stale, was
\* asked for and refused
C20_Witness ==
    /\ LoadReturned
    /\ HashesDiffer
    /\ request[1].file.as_of = request[1].candles_as_of
    /\ request[1].candles_as_of # None
    /\ request[1].file.hours_old = Some(STALE_CANDLE_HOURS)
    /\ response[1].data = None

\* an entry was served
C20_WitnessServed ==
    /\ LoadReturned
    /\ response[1].data # None
    /\ request[1].candles_hash # None
    /\ request[1].file.hash = request[1].candles_hash

\* RiskRepository.save has written the entry of this request
RiskSaved == pc \in {"saved", "saved_loaded"} /\ request[1].repo = "risk"

\* C22: RiskRepository.save records validation.is_reliable true only when the metrics'
\* is_reliable is true and window_days >= MIN_DATA_WINDOW_DAYS, and records
\* validation.min_window_days = MIN_DATA_WINDOW_DAYS; a load that follows with the same
\* hash and as_of and returns the entry returns that validation unchanged
C22_ReliabilityNeedsWindow ==
    RiskSaved =>
        LET v == request[1].file.validation[1]
        IN /\ v.is_reliable = (/\ request[1].is_reliable = Some(TRUE)
                               /\ request[1].window_days >= MIN_DATA_WINDOW_DAYS)
           /\ v.min_window_days = MIN_DATA_WINDOW_DAYS
           /\ v.window_days = request[1].window_days
           /\ (pc = "saved_loaded" /\ response[1].data # None) =>
                  response[1].data[1].validation = Some(v)

\* what the code does: the metrics' own is_reliable is recorded whatever the window
\* (False when the metrics carry none), min_window_days is MIN_WINDOW_DAYS, and load
\* returns the block as saved
C22_MetricsVerdictRecorded ==
    RiskSaved =>
        LET v == request[1].file.validation[1]
        IN /\ v.is_reliable = (request[1].is_reliable = Some(TRUE))
           /\ v.min_window_days = MIN_WINDOW_DAYS
           /\ v.window_days = request[1].window_days
           /\ v.min_trades_required = MIN_TRADES_FOR_RELIABILITY
           /\ (pc = "saved_loaded" /\ response[1].data # None) =>
                  response[1].data[1].validation = Some(v)

\* reliable metrics were saved with a window one day short of the minimum, and the
\* load that followed returned them as reliable
C22_ShortWindowReliable ==
    /\ RiskSaved
    /\ pc = "saved_loaded"
    /\ request[1].window_days < MIN_DATA_WINDOW_DAYS
    /\ response[1].data # None
    /\ response[1].data[1].validation[1].is_reliable

\* the entry on file was computed from the caller's candles: it carries the as_of the
\* caller gives, and no other hash than the caller's
EntryForCurrentCandles ==
    /\ request[1].file.state = "entry"
    /\ request[1].candles_as_of # None
    /\ request[1].file.as_of = request[1].candles_as_of
    /\ ~HashesDiffer

\* the as_of of the entry on file is more than STALE_CANDLE_HOURS old
CandlesAreOld ==
    /\ request[1].file.hours_old # None
    /\ request[1].file.hours_old[1] > STALE_CANDLE_HOURS

\* C30: staleness is decided from the age of the candles' as_of, not from when the entry
\* was saved: an entry for the current candles is withheld by load and reported stale
\* exactly when its as_of is more than STALE_CANDLE_HOURS old, whether it was saved
\* just now or long ago, in both repositories
C30_StaleByCandleAge ==
    (LoadReturned /\ EntryForCurrentCandles) =>
        /\ response[1].raised = None
        /\ CandlesAreOld =>
               /\ response[1].data = None
               /\ response[1].validation_info.is_stale
               /\ ~response[1].validation_info.is_inconsistent
        /\ ~CandlesAreOld =>
               /\ response[1].data = Some(request[1].file)
               /\ ~response[1].validation_info.is_stale

\* an entry was saved for candles 25 hours old, with their hash and as_of, and the load
\* that followed withheld it as stale
C30_Witness ==
    /\ pc = "saved_loaded"
    /\ EntryForCurrentCandles
    /\ request[1].file.hash # None
    /\ request[1].file.hash = request[1].candles_hash
    /\ request[1].file.saved_hours_ago = 0
    /\ CandlesAreOld
    /\ response[1].data = None
    /\ response[1].validation_info.is_stale

\* an entry saved 25 hours ago for candles 24 hours old was served
C30_WitnessOldEntryServed ==
    /\ pc = "loaded"
    /\ EntryForCurrentCandles
    /\ request[1].file.saved_hours_ago > STALE_CANDLE_HOURS
    /\ request[1].file.hours_old = Some(STALE_CANDLE_HOURS)
    /\ response[1].data # None

\* the frame handed to call k of CandleRepository.save
SavedFrame(k) == IF k = 1 THEN candles ELSE request[1].then_save

\* the last two calls on the candle repository both returned metadata
TwoReturned ==
    /\ pc = "candles_call"
    /\ run_no >= 3
    /\ first_result[1].raised = None
    /\ result[1].raised = None

\* the last two calls were calls of save / of load ("exists" is in load's metadata only)
TwoSaves == TwoReturned /\ first_result[1].exists = None /\ result[1].exists = None
TwoLoads == TwoReturned /\ first_result[1].exists # None /\ result[1].exists # None

\* the two frames hold the same rows, in whatever order
SameRows(f, g) == sort_values(f) = sort_values(g)

\* C21: source_file_hash is a deterministic digest of the candle content: two saves of
\* the same rows, in the same order or not, return the same hash, two loads of the
\* same file return the same hash, and two saves of candle sets that differ in a price
\* or in their timestamps return different hashes
C21_HashIsContentDigest ==
    /\ TwoSaves =>
           (first_result[1].source_file_hash = result[1].source_file_hash
                <=> SameRows(SavedFrame(run_no - 2), SavedFrame(run_no - 1)))
    /\ TwoLoads => first_result[1].source_file_hash = result[1].source_file_hash

\* what the code does: within one process the hash is decided by the latest timestamp
\* and the number of rows alone, and a restart of the process changes every hash
C21_HashOfLatestAndCount ==
    TwoReturned =>
        (first_result[1].source_file_hash = result[1].source_file_hash
             <=> /\ first_result[1].as_of = result[1].as_of
                 /\ first_result[1].rows = result[1].rows
                 /\ request[1].restart_before # run_no - 1)

\* two candle sets that differ in a close price, or in their first timestamp, were
\* saved in one process and got the same hash
C21_DifferentCandlesSameHash ==
    /\ TwoSaves
    /\ ~SameRows(SavedFrame(run_no - 2), SavedFrame(run_no - 1))
    /\ first_result[1].source_file_hash = result[1].source_file_hash

\* the same file was loaded before and after a restart and got two hashes
C21_SameFileTwoHashes ==
    /\ TwoLoads
    /\ first_result[1].source_file_hash # result[1].source_file_hash

\* the same rows in reverse order were saved in one process and got the same hash
C21_OrderIndependent ==
    /\ TwoSaves
    /\ SavedFrame(run_no - 2) # SavedFrame(run_no - 1)
    /\ SameRows(SavedFrame(run_no - 2), SavedFrame(run_no - 1))
    /\ first_result[1].source_file_hash = result[1].source_file_hash

-----------------------------------------------------------------------------
(* The verdict of _calculate_metrics against RiskPolicy.evaluate_all on the    *)
(* report's own values, checked under SpecMetrics                              *)

\* evaluate_all on the values a metrics report carries, window_days omitted
PolicyOnReport(report) ==
    evaluate_all(report.total_trades, None, report.profit_factor, report.total_return,
                 report.max_drawdown)

\* C28: for every report _calculate_metrics produces from a non-empty trade list,
\* is_reliable is true exactly when evaluate_all on the report's total_trades,
\* profit_factor, total_return and max_drawdown, without window_days, returns no
\* violation
C28_VerdictMatchesPolicy ==
    (pc = "metrics_returned" /\ trades # <<>>) =>
        (result[1].is_reliable <=> PolicyOnReport(result[1]) = <<>>)

\* what the code does: the verdict is taken on the values before rounding and the
\* report carries them rounded to two decimals, so the two agree except when a value
\* is rounded onto its threshold; a reliable report passes the policy unless its
\* total_return was rounded down to the minimum
C28_AgreeUnlessRoundedOntoThreshold ==
    (pc = "metrics_returned" /\ trades # <<>>) =>
        \/ result[1].is_reliable <=> PolicyOnReport(result[1]) = <<>>
        \/ /\ ~result[1].is_reliable
           /\ PolicyOnReport(result[1]) = <<>>
           /\ \/ result[1].max_drawdown = MAX_DRAWDOWN_PCT
              \/ result[1].profit_factor = Some(Finite(MIN_PROFIT_FACTOR))
        \/ /\ result[1].is_reliable
           /\ result[1].total_return = MIN_TOTAL_RETURN_PCT

\* a drawdown of 50.004% made the report unreliable, and the report's max_drawdown of
\* 50.00 passes the policy with every other value
C28_UnreliableButPasses ==
    /\ MetricsComputed
    /\ ~result[1].is_reliable
    /\ result[1].reason = Some(<<"Max drawdown > max">>)
    /\ result[1].max_drawdown = MAX_DRAWDOWN_PCT
    /\ PolicyOnReport(result[1]) = <<>>

=============================================================================
